---- MODULE Spec2Model ----
(***************************************************************************)
(* A model of the artifact-acquisition layer of brainspresso:              *)
(*   - File           (actions/file.py): lock + temp file + atomic publish *)
(*   - Action         (actions/action.py): policy decision + transaction   *)
(*   - Downloader     (download/downloader.py): policy decision            *)
(*   - DownloadManager (download/manager.py): both backends of a batch     *)
(*   - RemoteFile     (download/remote.py): requests, offset, iteration    *)
(*   - sort_digests   (utils/digests.py)                                   *)
(*                                                                         *)
(* Each subsystem has its own specification (SpecFile, SpecAction,         *)
(* SpecDecide); the variables of the other subsystems stay at their idle   *)
(* value.                                                                  *)
(***************************************************************************)
EXTENDS Integers, Sequences, FiniteSets, TLC

(***************************************************************************)
(* Bounds                                                                  *)
(***************************************************************************)
\* number of OS processes that each run one File transaction on X
NumProcs == 3
\* downloaders of a batch, records of a downloader
NumDl == 2
MaxRecs == 1
\* number of chunks a transform writes to the safe path
NChunks == 2
\* number of processes of the smaller specification SpecFilePair
NumPair == 2
\* largest number of destinations of one Action
MaxDst == 2
\* deepest nesting of `with IfExists(...)` scopes of one class
MaxDepth == 2
\* number of IncompleteFile transfers run one after the other on one X
MaxTransfers == 3
\* Downloader.max_attemps
MaxAttempts == 2
\* number of times the same Downloader is iterated
MaxRuns == 2

Procs == 1..NumProcs
\* the inode of the file found at the final path before any process ran
OLD == NumProcs + 1

(***************************************************************************)
(* State of the File subsystem: one destination X, its sidecars            *)
(* X.tmp/, X.tmp/X, X.tmp/lock, and one File handle per process.           *)
(* Paths hold inodes: 0 is "no such file", p \in Procs is the inode        *)
(* process p created, OLD is the pre-existing final file.  A lock is held  *)
(* on an inode, not on a path (fcntl), which is what the lock file's       *)
(* removal by rmtree(tempdir) makes visible.                               *)
(***************************************************************************)
VARIABLES
    mode,       \* mode[p]: File.mode of p's handle ("r" or "w"; "-" before construction)
    pc,         \* pc[p]: position of process p in its transaction
    exc,        \* exc[p]: "none", or why the body of the with-block raised
    tempdir,    \* BOOLEAN: X.tmp exists
    tempname,   \* inode at X.tmp/X
    lockname,   \* inode at X.tmp/lock
    filename,   \* inode at X
    lock,       \* lock[p]: inode on which p holds its reader/writer lock (0: none)
    fd,         \* fd[p]: inode p's transform has open for writing (0: none)
    written,    \* written[p]: number of chunks p's transform has written
    content,    \* content[f]: chunks of inode f; chunk k written by p is p, a hole is 0
    overlap     \* overlap[p]: p began while another transaction was in progress

fileVars == <<mode, pc, exc, tempdir, tempname, lockname, filename,
              lock, fd, written, content, overlap>>

(***************************************************************************)
(* State of one Action (actions/action.py) iterated to exhaustion by one   *)
(* process: its attributes, the files at its source and destination paths  *)
(* with their sidecars, its position and the records it has yielded.       *)
(* A file is [data, mtime]; data 0 is "no such file".                      *)
(***************************************************************************)
VARIABLES
    ifexists,    \* Action.ifexists
    current,     \* IfExists.current ("none": no override)
    size,        \* Action.size (0: None)
    digests,     \* expected digest of the first algorithm of Action.digests (0: no digests)
    mtime,       \* Action.mtime ("none": None)
    src,         \* the file at the source path; data -1: the Action has no source
    dst,         \* dst[i]: the file at the i-th destination path
    dst0,        \* dst as it was before the run
    dstTempdir,  \* dstTempdir[i]: dst[i].tmp exists
    dstTempname, \* dstTempname[i]: the file at dst[i].tmp/dst[i], [data, whole]
    dstLock,     \* dstLock[i]: the Action's File handle holds the lock of dst[i]
    srcLock,     \* the Action's File handle on the source holds its read lock
    apc,         \* position of the Action
    decided,     \* what _should_overwrite came to ("none": it was not called)
    ran,         \* how the transform ended ("no": it was not called)
    records      \* the records yielded so far

actVars == <<ifexists, current, size, digests, mtime, src, dst, dst0,
             dstTempdir, dstTempname, dstLock, srcLock, apc, decided, ran,
             records>>

\* One Downloader (download/downloader.py) deciding whether to fetch
VARIABLES
    dl,          \* the Downloader: [ifexists, size, mtime, digests, ifnodigest,
                 \* remote, range]; size and mtime are those of the server
                 \* when not given (0, "none": the server does not tell),
                 \* digests the first expected digest, remote the data the
                 \* server holds at self.src, range whether the server
                 \* answers 206 to a range request
    dlCurrent,   \* IfExists.current of download/downloader.py
    dlDst,       \* the file at Downloader.dst
    dlpc,        \* position of Downloader.iter
    dlDecided,   \* what _should_overwrite came to
    dlRecords,   \* the records yielded so far
    dlAttempt,   \* `attempt` of the retry loop
    dlPast,      \* [records, dst] at the end of each earlier iteration
    dlExc,       \* the exception that ended the last attempt of this
                 \* iteration ("none": it ended without one, or none ended)
    remote_file  \* the RemoteFile of the last attempt: [opened, status,
                 \* body]: how many were entered in this iteration, the
                 \* status of the GET response, the chunks not yet iterated

dlVars == <<dl, dlCurrent, dlDst, dlpc, dlDecided, dlRecords, dlAttempt, dlPast,
            dlExc, remote_file>>

\* the data the server holds, which iteration this is, the first iteration
dlRemote == dl.remote
dlRun == Len(dlPast) + 1
dlFirst == dlPast[1]

\* The `with IfExists(value):` scopes that are open, innermost last, each
\* [value, prev] as the IfExists object holds them
VARIABLES
    scopes,      \* scopes of actions/action.py IfExists
    dlScopes     \* scopes of download/downloader.py IfExists

scVars == <<scopes, dlScopes>>

\* One destination X of IncompleteFile (download/incomplete.py) with its
\* sidecars, and the handle of the transfer in progress.  A file is
\* [exists, bytes]; a byte chunk is tagged with the digest that the transfer
\* which wrote it expected (0: none).
VARIABLE inc     \* a record of the fields named below

incVars == <<inc>>

incFilename == inc.filename    \* the file at X
incTempname == inc.tempname    \* the file at X.download
incCheckname == inc.checkname  \* the digest in X.checksum (0: no such file)
incLockname == inc.lockname    \* BOOLEAN: X.lock exists
incLock == inc.lock            \* BOOLEAN: the handle holds the lock
incChecksum == inc.checksum    \* IncompleteFile.checksum (0: None)
incFallback == inc.fallback    \* IncompleteFile.ifnochecksum ("r" or "c")
incMode == inc.mode            \* mode X.download was opened in ("ab", "wb"; "-": not open)
incOffset == inc.offset        \* IncompleteFile.offset (-1: None)
incpc == inc.pc                \* position of the handle
incCount == inc.count          \* number of transfers begun so far
incAlgo == inc.algo            \* checkalgo of the last IncompleteFile (0: None)
incDigester == inc.digester    \* IncompleteFile.digester: the bytes it was
                               \* updated with ("none": None)
incExc == inc.exc              \* what the last begin raised ("none", "lock":
                               \* RuntimeError, "type": TypeError)

\* Several processes, each with its own IncompleteFile on the same X
VARIABLE conc    \* a record of the fields named below

concVars == <<conc>>

concpc == conc.pc              \* position of each process's IncompleteFile
concLock == conc.lock          \* the lock file each self.lock holds locked
                               \* (0: it holds none)
concLockname == conc.lockname  \* the file at X.lock (0: absent)
concCreated == conc.created    \* number of lock files created so far
concTempname == conc.tempname  \* the process that last opened X.download
                               \* (0: absent)
concCheckname == conc.checkname \* BOOLEAN: X.checksum exists
concFilename == conc.filename  \* the process whose file is at X (0: absent)
concCount == conc.count        \* number of begins so far

\* One DownloadManager (download/manager.py) running a batch
VARIABLE mgr     \* a record of the fields named below

mgrVars == <<mgr>>

mgrIfExists == mgr.ifexists    \* the argument ifexists of DownloadManager
                               \* ("None": not given)
mgrMode == mgr.mode            \* the argument of run: "async", "threaded"
mgrOnError == mgr.on_error     \* DownloadManager.on_error
mgrJobs == mgr.jobs            \* DownloadManager.jobs: the size of the Pool
mgrPlan == mgr.plan            \* what each downloader will do: [n, raises]:
                               \* it yields n records, then raises or ends
mgrNext == mgr.next            \* the downloader the for loop takes next
mgrSt == mgr.st                \* each downloader: "new", "queued" (given to
                               \* the pool), "running", "ended", "raised"
mgrPos == mgr.pos              \* the records each downloader has yielded
mgrJobQueue == mgr.jobs_queue  \* the queue `jobs` of run_threaded
mgrStatuses == mgr.statuses    \* the queue `statuses` of run_threaded
mgrFeed == mgr.feed            \* the records self.out was called with
mgrpc == mgr.pc                \* run(): "idle", "run", "statuses", "job" (in
                               \* unpack_statuses()), "unpack", "forever" (in
                               \* unpack_jobs()), "returned", "raised" (an
                               \* exception left run)

\* One RemoteFile (download/remote.py), the server its URL points to and the
\* session it uses
VARIABLE rf      \* a record of the fields named below

rfVars == <<rf>>

rfServer == rf.server          \* the server: [body, range, hops, code, locked,
                               \* key, page]: the bytes at the final location,
                               \* whether it serves ranges, how many
                               \* redirects lead to the final location and
                               \* their status, whether it wants the session
                               \* authenticated, whether the callback
                               \* authenticates it, the body of its errors
rfOffset == rf.offset          \* RemoteFile.offset
rfAuthed == rf.authed          \* the session is authenticated
rfHasRange == rf.has_range     \* RemoteFile._has_range ("None": not asked yet)
rfCall == rf.call              \* the last call of _try_head or _try_get:
                               \* [method, events, first, r, exc, authed]:
                               \* what it sent, the status of the first
                               \* response, what it returned or raised
rfLog == rf.log                \* all that was sent so far
rfIterator == rf.iterator      \* the bytes self.iterator has not yielded yet
rfNbytes == rf.nbytes          \* nbytes of _skip
rfBuffer == rf.buffer          \* RemoteFile.buffer (<<-1>>: None)
rfYielded == rf.yielded        \* the chunks iter has yielded, concatenated
rfpc == rf.pc                  \* "idle", "new", "skip", "iter", "chunks",
                               \* "done", "raised"

\* One call of utils/digests.py sort_digests
VARIABLE sd      \* [digests, sorted]: the dict given, as the sequence of its
                 \* keys in insertion order, and the dict returned (<<-1>>:
                 \* not called yet)

sdVars == <<sd>>

vars == <<fileVars, actVars, dlVars, scVars, incVars, concVars, mgrVars, rfVars, sdVars>>

\* what the steps of one component leave alone
notFile == <<actVars, dlVars, scVars, incVars, concVars, mgrVars, rfVars, sdVars>>
notAction == <<fileVars, dlVars, scVars, incVars, concVars, mgrVars, rfVars, sdVars>>
notDownloader == <<fileVars, actVars, scVars, incVars, concVars, mgrVars, rfVars, sdVars>>
notIncomplete == <<fileVars, actVars, dlVars, scVars, concVars, mgrVars, rfVars, sdVars>>
notConc == <<fileVars, actVars, dlVars, scVars, incVars, mgrVars, rfVars, sdVars>>
notRemote == <<fileVars, actVars, dlVars, scVars, incVars, concVars, mgrVars, sdVars>>
notDigests == <<fileVars, actVars, dlVars, scVars, incVars, concVars, mgrVars, rfVars>>
notManager == <<fileVars, actVars, dlVars, scVars, incVars, concVars, rfVars, sdVars>>

(***************************************************************************)
(* File.__enter__ (actions/file.py)                                        *)
(***************************************************************************)
Modes == {"r", "w"}

\* self.writable = 'w' in mode or 'a' in mode or '+' in mode
Writable(m) == m \in {"w", "a", "r+", "w+", "a+"}
\* self.readable = 'r' in mode or '+' in mode
Readable(m) == m \in {"r", "r+", "w+", "a+"}

\* a transaction that is neither unstarted nor over
Active(p) == pc[p] \in {"lock", "body", "exit_publish", "exit_release", "exit_rmtree"}

\* fcntl semantics of InterProcessReaderWriterLock on inode i, asked by p
CanLockExclusive(p, i) == \A q \in Procs \ {p} : lock[q] # i
CanLockShared(p, i) == \A q \in Procs \ {p} : lock[q] = i => ~Writable(mode[q])

\* tempdir.mkdir(exist_ok=True); tempname.unlink(missing_ok=True)
\* This runs before the lock is asked for.
EnterPrepare(p, m) ==
    /\ pc[p] = "idle"
    /\ mode' = [mode EXCEPT ![p] = m]
    /\ tempdir' = TRUE
    /\ tempname' = 0
    /\ overlap' = [overlap EXCEPT ![p] = \E q \in Procs \ {p} : Active(q)]
    /\ pc' = [pc EXCEPT ![p] = "lock"]
    /\ UNCHANGED <<exc, lockname, filename, lock, fd, written, content>>
    /\ UNCHANGED notFile

\* InterProcessReaderWriterLock(lockname).acquire_{write,read}_lock(blocking=False)
\* The lock file (and its directory) is created when missing.
EnterLock(p) ==
    /\ pc[p] = "lock"
    /\ LET i == IF lockname = 0 THEN p ELSE lockname
           ok == IF Writable(mode[p]) THEN CanLockExclusive(p, i)
                 ELSE IF Readable(mode[p]) THEN CanLockShared(p, i)
                 ELSE TRUE
       IN /\ tempdir' = TRUE
          /\ lockname' = i
          /\ IF ok
             THEN /\ lock' = [lock EXCEPT ![p] = i]
                  /\ pc' = [pc EXCEPT ![p] = "body"]
             ELSE \* RuntimeError out of __enter__: __exit__ never runs
                  /\ lock' = lock
                  /\ pc' = [pc EXCEPT ![p] = "failed"]
    /\ UNCHANGED <<mode, exc, tempname, filename, fd, written, content, overlap>>
    /\ UNCHANGED notFile

(***************************************************************************)
(* The body of the with-block: a transform writing to safename             *)
(***************************************************************************)
\* chunk k of writer p put at offset k of a file
PutChunk(c, k, p) ==
    [j \in 1..(IF Len(c) > k THEN Len(c) ELSE k) |->
        IF j = k THEN p ELSE IF j <= Len(c) THEN c[j] ELSE 0]

\* open(safename, 'wb'): creates the file, or truncates the one found there
TransformOpen(p) ==
    /\ pc[p] = "body" /\ Writable(mode[p]) /\ fd[p] = 0
    /\ IF ~tempdir
       THEN \* FileNotFoundError: the directory is gone
            /\ exc' = [exc EXCEPT ![p] = "io"]
            /\ pc' = [pc EXCEPT ![p] = "exit_publish"]
            /\ UNCHANGED <<tempname, fd, content>>
       ELSE LET f == IF tempname = 0 THEN p ELSE tempname
            IN /\ tempname' = f
               /\ fd' = [fd EXCEPT ![p] = f]
               /\ content' = [content EXCEPT ![f] = <<>>]
               /\ UNCHANGED <<exc, pc>>
    /\ UNCHANGED <<mode, tempdir, lockname, filename, lock, written, overlap>>
    /\ UNCHANGED notFile

TransformWrite(p) ==
    /\ pc[p] = "body" /\ fd[p] # 0 /\ written[p] < NChunks
    /\ written' = [written EXCEPT ![p] = @ + 1]
    /\ content' = [content EXCEPT ![fd[p]] = PutChunk(@, written[p] + 1, p)]
    /\ UNCHANGED <<mode, pc, exc, tempdir, tempname, lockname, filename,
                   lock, fd, overlap>>
    /\ UNCHANGED notFile

\* the body raises
TransformRaise(p) ==
    /\ pc[p] = "body"
    /\ exc' = [exc EXCEPT ![p] = "transform"]
    /\ pc' = [pc EXCEPT ![p] = "exit_publish"]
    /\ UNCHANGED <<mode, tempdir, tempname, lockname, filename, lock, fd,
                   written, content, overlap>>
    /\ UNCHANGED notFile

\* the body returns
TransformReturn(p) ==
    /\ pc[p] = "body"
    /\ Writable(mode[p]) => (fd[p] # 0 /\ written[p] = NChunks)
    /\ pc' = [pc EXCEPT ![p] = "exit_publish"]
    /\ UNCHANGED <<mode, exc, tempdir, tempname, lockname, filename, lock, fd,
                   written, content, overlap>>
    /\ UNCHANGED notFile

(***************************************************************************)
(* File.__exit__ (actions/file.py)                                         *)
(***************************************************************************)
\* if exc_type is None and self.tempname.exists(): tempname.replace(filename)
ExitPublish(p) ==
    /\ pc[p] = "exit_publish"
    /\ IF exc[p] = "none" /\ tempdir /\ tempname # 0
       THEN filename' = tempname /\ tempname' = 0
       ELSE UNCHANGED <<filename, tempname>>
    /\ pc' = [pc EXCEPT ![p] = "exit_release"]
    /\ UNCHANGED <<mode, exc, tempdir, lockname, lock, fd, written, content, overlap>>
    /\ UNCHANGED notFile

\* finally: release_write_lock() / release_read_lock()
ExitRelease(p) ==
    /\ pc[p] = "exit_release"
    /\ lock' = [lock EXCEPT ![p] = 0]
    /\ pc' = [pc EXCEPT ![p] = "exit_rmtree"]
    /\ UNCHANGED <<mode, exc, tempdir, tempname, lockname, filename, fd,
                   written, content, overlap>>
    /\ UNCHANGED notFile

\* a File.__exit__ that removes X.tmp only when the body did not raise
ExitRmtreeOnSuccess(p) ==
    /\ pc[p] = "exit_rmtree"
    /\ IF exc[p] = "none"
       THEN tempdir' = FALSE /\ tempname' = 0 /\ lockname' = 0
       ELSE UNCHANGED <<tempdir, tempname, lockname>>
    /\ pc' = [pc EXCEPT ![p] = "done"]
    /\ UNCHANGED <<mode, exc, filename, lock, fd, written, content, overlap>>
    /\ UNCHANGED notFile

\* if self.tempdir.exists(): rmtree(self.tempdir)
ExitRmtree(p) ==
    /\ pc[p] = "exit_rmtree"
    /\ tempdir' = FALSE
    /\ tempname' = 0
    /\ lockname' = 0
    /\ pc' = [pc EXCEPT ![p] = "done"]
    /\ UNCHANGED <<mode, exc, filename, lock, fd, written, content, overlap>>
    /\ UNCHANGED notFile

(***************************************************************************)
(* Action (actions/action.py)                                              *)
(***************************************************************************)
Policies == {"skip", "overwrite", "different", "refresh", "error"}

\* what a file can hold: data 1 and 2 have the same size, data 3 is longer;
\* the three have different digests
Data == {1, 2, 3}
SizeOf(d) == IF d = 3 THEN 2 ELSE 1
DigestOf(d) == d
\* os.stat(...).st_mtime of a file written before the run; "none" is None
Times == {"t1", "t2"}
\* time.time() during the run
Now == "now"

NoFile == [data |-> 0, mtime |-> "none"]
NoSource == [data |-> -1, mtime |-> "none"]
FileStates == {NoFile} \cup [data : Data, mtime : Times]
\* a source is only looked at for its existence and its mtime: no source, a
\* source path with no file, a source file last modified at "t2"
SourceStates == {NoSource, NoFile, [data |-> 1, mtime |-> "t2"]}
NoTemp == [data |-> 0, whole |-> FALSE]

DstIdx == DOMAIN dst

\* exists = list(map(lexists, dst))
Lexists(f) == f.data > 0
AnyExists(d) == \E i \in DOMAIN d : Lexists(d[i])
AllExist(d) == \A i \in DOMAIN d : Lexists(d[i])

\* ifexists = IfExists.current or self.ifexists
Effective(cur, own) == IF cur # "none" THEN cur ELSE own

\* A decision that skips under SKIP as soon as one destination exists:
ShouldOverwriteSkipAny(d, ifx, sz, dg, mt) ==
    IF ifx = "error" /\ AnyExists(d) THEN "FileExistsError"
    ELSE IF ifx = "skip" /\ AnyExists(d) THEN "skipped"
    ELSE "proceed"

\* Action._should_overwrite: "proceed" (returns True), "skipped" (yields the
\* skipped record and returns False), or the exception it raises.
\* d: the files at the destination paths, ifx: the policy in effect,
\* sz, dg: self.size, the first expected digest (0: None); mt: self.mtime.
ShouldOverwrite(d, ifx, sz, dg, mt) ==
    IF ifx = "error" /\ AnyExists(d) THEN "FileExistsError"
    ELSE IF ifx = "skip" /\ AllExist(d) THEN "skipped"
    ELSE IF ifx = "overwrite" /\ AnyExists(d) THEN "proceed"
    ELSE IF ifx = "different" THEN
        IF ~AllExist(d) THEN
            \* dst = [d for d, e in zip(dst, exists) if e]; f'{dst[0]!s}'
            IF AnyExists(d) THEN "proceed" ELSE "IndexError"
        ELSE IF \E i \in DOMAIN d : sz # 0 /\ sz # SizeOf(d[i].data) THEN "proceed"
        ELSE IF dg # 0 /\ (\E i \in DOMAIN d : DigestOf(d[i].data) # dg) THEN "proceed"
        ELSE "skipped"
    ELSE IF ifx = "refresh" THEN
        IF ~AllExist(d) THEN
            IF AnyExists(d) THEN "proceed" ELSE "IndexError"
        ELSE IF mt = "none" THEN "proceed"
        ELSE IF \A i \in DOMAIN d : d[i].mtime = mt THEN "skipped"
        ELSE "proceed"
    ELSE "proceed"

\* the generator is exhausted after yielding the records recs: Files.__exit__
\* of the sources runs as the with-block of __iter__ is left
Finish(recs) ==
    /\ records' = records \o recs
    /\ srcLock' = FALSE
    /\ apc' = "done"

\* an exception that no handler turns into a record
Escape == Finish(<<>>)

\* an exception reaches one of the two handlers: yield {'status': 'error'}
Raise == Finish(<<"error">>)

\* Action.__iter__: with Files(*[File(src1, "r") for src1 in src])
AEnterSrc ==
    /\ apc = "start"
    /\ srcLock' = (src # NoSource)
    /\ apc' = "mtime"
    /\ UNCHANGED <<decided, ifexists, current, size, digests, mtime, src, dst, dst0,
                   dstTempdir, dstTempname, dstLock, ran, records>>
    /\ UNCHANGED notAction

\* Action._iter: self.mtime = max([mtime of src1 for src1 in src if exists])
AMtime ==
    /\ apc = "mtime"
    /\ IF mtime = "none" /\ src # NoSource
       THEN IF Lexists(src)
            THEN mtime' = src.mtime /\ apc' = "decide" /\ UNCHANGED <<records, srcLock>>
            ELSE \* max([]) raises ValueError
                 Raise /\ UNCHANGED mtime
       ELSE apc' = "decide" /\ UNCHANGED <<mtime, records, srcLock>>
    /\ UNCHANGED <<decided, ifexists, current, size, digests, src, dst, dst0,
                   dstTempdir, dstTempname, dstLock, ran>>
    /\ UNCHANGED notAction

\* Action._iter: if not (yield from self._should_overwrite()): return
ADecide ==
    /\ apc = "decide"
    /\ LET r == ShouldOverwrite(dst, Effective(current, ifexists), size, digests, mtime)
       IN /\ decided' = r
          /\ CASE r = "proceed" -> apc' = "enter" /\ UNCHANGED <<records, srcLock>>
               [] r = "skipped" -> Finish(<<"skipped">>)
               [] OTHER -> Raise
    /\ UNCHANGED <<ifexists, current, size, digests, mtime, src, dst, dst0,
                   dstTempdir, dstTempname, dstLock, ran>>
    /\ UNCHANGED notAction

\* Files.__enter__ over the destinations, each File.__enter__ in turn; k is
\* the first file whose lock another process holds (0: none): its __enter__
\* raises RuntimeError and the files before it stay entered.
AEnterDst(k) ==
    /\ apc = "enter"
    /\ LET failing == {i \in DstIdx : i = k}
           entered == {i \in DstIdx : \A j \in failing : i < j}
           reached == {i \in DstIdx : \A j \in failing : i <= j}
       IN /\ dstTempdir' = [i \in DstIdx |-> dstTempdir[i] \/ i \in reached]
          /\ dstTempname' = [i \in DstIdx |->
                                IF i \in reached THEN NoTemp ELSE dstTempname[i]]
          /\ dstLock' = [i \in DstIdx |-> i \in entered]
          /\ IF failing = {}
             THEN apc' = "transform" /\ UNCHANGED <<records, srcLock>>
             ELSE Raise
    /\ UNCHANGED <<decided, ifexists, current, size, digests, mtime, src, dst,
                   dst0, ran>>
    /\ UNCHANGED notAction

\* actions/writers.py Unlink: Action(src=[], dst=dst, action=self.action,
\* mode="w", input="path", ifexists="overwrite")
IsUnlink ==
    /\ src = NoSource /\ Len(dst) = 1
    /\ ifexists = "overwrite" /\ size = 0 /\ digests = 0 /\ mtime = "none"

\* how a transform can end; "unlinked" is Unlink.action, which calls
\* path.unlink(missing_ok=True) on the path it is given
Outcomes == {"wrote", "wrote_nothing", "raised", "raised_after_write",
             "unlinked"}
\* input='file' hands over OpenedFile objects that were never entered and
\* have no close(): the call always ends in an exception
OutcomesOf(input) ==
    IF input = "file" THEN {"raised", "raised_after_write"} ELSE Outcomes

\* self.action(*files) inside the with-block; out is what it writes
ATransform(input, how, out) ==
    /\ apc = "transform"
    /\ how \in OutcomesOf(input)
    /\ how = "unlinked" => IsUnlink
    /\ ran' = how
    /\ dstTempname' = [i \in DstIdx |->
            CASE how = "wrote" -> [data |-> out, whole |-> TRUE]
              [] how = "raised_after_write" -> [data |-> out, whole |-> FALSE]
              [] how = "unlinked" -> NoTemp
              [] OTHER -> dstTempname[i]]
    /\ apc' = "exit"
    /\ UNCHANGED <<decided, ifexists, current, size, digests, mtime, src, dst, dst0,
                   dstTempdir, dstLock, srcLock, records>>
    /\ UNCHANGED notAction

\* the body raised
Raised(how) == how \in {"raised", "raised_after_write"}

\* a File.__exit__ that renames the temp file whether or not the body raised
PublishedAnyway(f, temp, raised) ==
    IF temp # NoTemp THEN [data |-> temp.data, mtime |-> Now] ELSE f

\* File.__exit__ of one destination: the file found at its path afterwards
Published(f, temp, raised) ==
    IF ~raised /\ temp # NoTemp THEN [data |-> temp.data, mtime |-> Now] ELSE f

\* Files.__exit__: File.__exit__ of every entered file
AExitDst ==
    /\ apc = "exit"
    /\ dst' = [i \in DstIdx |-> Published(dst[i], dstTempname[i], Raised(ran))]
    /\ dstTempname' = [i \in DstIdx |-> NoTemp]
    /\ dstTempdir' = [i \in DstIdx |-> FALSE]
    /\ dstLock' = [i \in DstIdx |-> FALSE]
    /\ IF Raised(ran)
       THEN Raise
       ELSE apc' = "verify" /\ UNCHANGED <<records, srcLock>>
    /\ UNCHANGED <<decided, ifexists, current, size, digests, mtime, src, dst0,
                   ran>>
    /\ UNCHANGED notAction

\* Action._iter: the digest check.  checksum, checkalgo are unpacked in the
\* wrong order, so get_digest is asked for an algorithm named by the
\* expected digest and raises AttributeError.
AVerify ==
    /\ apc = "verify"
    /\ IF digests # 0
       THEN Raise
       ELSE /\ records' = Append(records, "checksum -")
            /\ apc' = "utime"
            /\ UNCHANGED srcLock
    /\ UNCHANGED <<decided, ifexists, current, size, digests, mtime, src, dst, dst0,
                   dstTempdir, dstTempname, dstLock, ran>>
    /\ UNCHANGED notAction

\* a last step that sets the times and ends without yielding 'done'
AUtimeSilent ==
    /\ apc = "utime"
    /\ dst' = [i \in DstIdx |->
                 IF Lexists(dst[i])
                 THEN [dst[i] EXCEPT !.mtime = IF mtime # "none" THEN mtime ELSE Now]
                 ELSE dst[i]]
    /\ Finish(<<"setting mtime">>)
    /\ UNCHANGED <<decided, ifexists, current, size, digests, mtime, src, dst0,
                   dstTempdir, dstTempname, dstLock, ran>>
    /\ UNCHANGED notAction

\* yield 'setting mtime'; os.utime(dst1, (atime, mtime)); yield 'done'
AUtime ==
    /\ apc = "utime"
    /\ IF AllExist(dst)
       THEN /\ dst' = [i \in DstIdx |->
                         [dst[i] EXCEPT !.mtime = IF mtime # "none" THEN mtime ELSE Now]]
            /\ Finish(<<"setting mtime", "done">>)
       ELSE \* FileNotFoundError out of os.utime (the earlier files are touched)
            /\ dst' = [i \in DstIdx |->
                         IF \A j \in 1..i : Lexists(dst[j])
                         THEN [dst[i] EXCEPT !.mtime = IF mtime # "none" THEN mtime ELSE Now]
                         ELSE dst[i]]
            /\ Finish(<<"setting mtime", "error">>)
    /\ UNCHANGED <<decided, ifexists, current, size, digests, mtime, src, dst0,
                   dstTempdir, dstTempname, dstLock, ran>>
    /\ UNCHANGED notAction

InitAction ==
    /\ ifexists \in Policies
    /\ current \in {"none"} \cup Policies
    /\ size \in {0, 1}
    /\ digests \in {0, 1}
    /\ mtime \in {"none", "t1"}
    /\ src \in SourceStates
    /\ \E n \in 1..MaxDst : dst \in [1..n -> FileStates]
    /\ dst0 = dst
    /\ dstTempdir = [i \in DOMAIN dst |-> FALSE]
    /\ dstTempname = [i \in DOMAIN dst |-> NoTemp]
    /\ dstLock = [i \in DOMAIN dst |-> FALSE]
    /\ srcLock = FALSE
    /\ apc = "start"
    /\ decided = "none"
    /\ ran = "no"
    /\ records = <<>>

\* no Action is running
IdleAction ==
    /\ ifexists = "different"
    /\ current = "none"
    /\ size = 0 /\ digests = 0 /\ mtime = "none"
    /\ src = NoSource
    /\ dst = <<>> /\ dst0 = <<>>
    /\ dstTempdir = <<>> /\ dstTempname = <<>> /\ dstLock = <<>>
    /\ srcLock = FALSE
    /\ apc = "idle"
    /\ decided = "none"
    /\ ran = "no"
    /\ records = <<>>

NextAction ==
    \/ AEnterSrc
    \/ AMtime
    \/ ADecide
    \/ \E k \in {0} \cup DstIdx : AEnterDst(k)
    \/ \E input \in {"file", "path"}, how \in Outcomes, out \in {1, 2} :
           ATransform(input, how, out)
    \/ AExitDst
    \/ AVerify
    \/ AUtime

(***************************************************************************)
(* IfExists as a context manager (actions/action.py, downloader.py)        *)
(***************************************************************************)
\* IfExists.default
ScopeDefault == "different"

\* the Action's attributes and files, which a scope does not touch
actRest == <<ifexists, size, digests, mtime, src, dst, dst0, dstTempdir,
             dstTempname, dstLock, srcLock, apc, decided, ran, records>>
dlRest == <<dl, dlDst, dlpc, dlDecided, dlRecords, dlAttempt, dlPast, dlExc,
           remote_file>>

\* actions/action.py IfExists.__enter__:
\*   self._prev = self.default; type(self).current = self.value
ScopeEnter(v) ==
    /\ Len(scopes) < MaxDepth
    /\ scopes' = Append(scopes, [value |-> v, prev |-> ScopeDefault])
    /\ current' = v
    /\ UNCHANGED <<fileVars, actRest, dlVars, dlScopes, incVars, concVars, mgrVars, rfVars, sdVars>>

\* actions/action.py IfExists.__exit__: type(self).current = self._prev
ScopeExit ==
    /\ scopes # <<>>
    /\ current' = scopes[Len(scopes)].prev
    /\ scopes' = SubSeq(scopes, 1, Len(scopes) - 1)
    /\ UNCHANGED <<fileVars, actRest, dlVars, dlScopes, incVars, concVars, mgrVars, rfVars, sdVars>>

\* download/downloader.py IfExists.__enter__:
\*   self._prev = type(self).current; type(self).current = self.value
DlScopeEnter(v) ==
    /\ Len(dlScopes) < MaxDepth
    /\ dlScopes' = Append(dlScopes, [value |-> v, prev |-> dlCurrent])
    /\ dlCurrent' = v
    /\ UNCHANGED <<fileVars, actVars, dlRest, scopes, incVars, concVars, mgrVars, rfVars, sdVars>>

\* download/downloader.py IfExists.__exit__: type(self).current = self._prev
DlScopeExit ==
    /\ dlScopes # <<>>
    /\ dlCurrent' = dlScopes[Len(dlScopes)].prev
    /\ dlScopes' = SubSeq(dlScopes, 1, Len(dlScopes) - 1)
    /\ UNCHANGED <<fileVars, actVars, dlRest, scopes, incVars, concVars, mgrVars, rfVars, sdVars>>

\* no scope is open
IdleScope == scopes = <<>> /\ dlScopes = <<>>

NextScope ==
    \/ \E v \in Policies : ScopeEnter(v)
    \/ ScopeExit
    \/ \E v \in Policies : DlScopeEnter(v)
    \/ DlScopeExit

(***************************************************************************)
(* IncompleteFile (download/incomplete.py)                                 *)
(***************************************************************************)
\* the digests a caller can expect (0: none given)
Digests == {1, 2}
\* the algorithms a caller can name (0: none given)
Algos == {1}
Absent == [exists |-> FALSE, bytes |-> <<>>]
\* the file found at X before any transfer
OldFile == [exists |-> TRUE, bytes |-> <<-1>>]

\* a begin that resumes whenever a partial file exists
ContinueAlways(exists, cks, marker, fallback) == exists

\* __aenter__: cont = exists(tempname) and
\*   ((self.checksum and self.checksum == checksum) or
\*    (not self.checksum and self.ifnochecksum == 'c'))
Continue(exists, cks, marker, fallback) ==
    exists /\ ((cks # 0 /\ cks = marker) \/ (cks = 0 /\ fallback = "c"))

\* positions of a handle that is not in use: never entered, left without or
\* with an exception, __aenter__ raised
Ended == {"idle", "done", "raised", "failed"}

\* a new IncompleteFile(filename, checksum=cks, ifnochecksum=fb).__aenter__;
\* busy: another process holds the lock on X.lock
Begin(cks, fb, busy) ==
    /\ incpc \in Ended
    /\ inc' = IF busy
              THEN \* RuntimeError: Could not acquire download lock
                   [inc EXCEPT !.count = @ + 1, !.checksum = cks,
                               !.fallback = fb, !.lockname = TRUE,
                               !.algo = 0, !.exc = "lock",
                               !.pc = "failed"]
              ELSE IF Continue(incTempname.exists, cks, incCheckname, fb)
              THEN [inc EXCEPT !.count = @ + 1, !.checksum = cks,
                               !.fallback = fb, !.lockname = TRUE,
                               !.lock = TRUE,
                               !.algo = 0, !.exc = "none",
                               !.mode = "ab",
                               !.offset = Len(incTempname.bytes),
                               !.checkname = IF cks # 0 THEN cks ELSE @,
                               !.pc = "open"]
              ELSE [inc EXCEPT !.count = @ + 1, !.checksum = cks,
                               !.fallback = fb, !.lockname = TRUE,
                               !.lock = TRUE,
                               !.algo = 0, !.exc = "none",
                               !.mode = "wb",
                               !.offset = 0,
                               !.tempname = [exists |-> TRUE, bytes |-> <<>>],
                               !.checkname = IF cks # 0 THEN cks ELSE @,
                               !.pc = "open"]

\* IncompleteFile(filename, checkalgo=algo) with an algorithm: __init__
\* evaluates hasattr(checkalgo, hashlib), whose second argument is a module,
\* and raises TypeError before any attribute is assigned; no lock is asked
\* for and no file is touched
IncInit(algo) ==
    /\ incCount < MaxTransfers
    /\ incpc \in Ended
    /\ inc' = [inc EXCEPT !.count = @ + 1, !.algo = algo, !.exc = "type",
                          !.pc = "failed"]
    /\ UNCHANGED notIncomplete

IncEnter(cks, fb, busy) ==
    /\ incCount < MaxTransfers
    /\ Begin(cks, fb, busy)
    /\ UNCHANGED notIncomplete

\* IncompleteFile.append(blob): self.file.write(blob)
AppendChunk(blob) ==
    /\ incpc = "open"
    /\ inc' = [inc EXCEPT !.tempname.bytes = Append(@, blob)]

\* an append of a blob that tells which transfer wrote it
AppendBlob ==
    /\ Len(incTempname.bytes) < NChunks
    /\ AppendChunk(incChecksum)

IncAppend == AppendBlob /\ UNCHANGED notIncomplete

\* an __aexit__ that removes the sidecars whether or not the body raised
IncExitClean(ok) ==
    /\ incpc = "open"
    /\ inc' = [inc EXCEPT !.filename = IF ok THEN incTempname ELSE @,
                          !.tempname = Absent,
                          !.lockname = FALSE,
                          !.checkname = 0,
                          !.lock = FALSE,
                          !.mode = "-", !.offset = -1,
                          !.pc = IF ok THEN "done" ELSE "raised"]
    /\ UNCHANGED notIncomplete

\* IncompleteFile.__aexit__; ok: the body of the with-block did not raise
End(ok) ==
    /\ incpc = "open"
    /\ inc' = IF ok
              THEN \* rename(tempname, filename); release; unlink the three
                   \* sidecars
                   [inc EXCEPT !.filename = incTempname,
                               !.tempname = Absent,
                               !.lockname = FALSE,
                               !.checkname = 0,
                               !.lock = FALSE,
                               !.mode = "-", !.offset = -1,
                               !.pc = "done"]
              ELSE \* release only
                   [inc EXCEPT !.lock = FALSE,
                               !.mode = "-", !.offset = -1,
                               !.pc = "raised"]

IncExit(ok) == End(ok) /\ UNCHANGED notIncomplete

\* no transfer has begun; X.download holds tmp
NotBegun(fn, tmp) ==
    [filename |-> fn, tempname |-> tmp, checkname |-> 0,
     lockname |-> tmp.exists, lock |-> FALSE, checksum |-> 0,
     fallback |-> "r", mode |-> "-", offset |-> -1, pc |-> "idle",
     count |-> 0, algo |-> 0, digester |-> "none", exc |-> "none"]

InitIncomplete == \E fn \in {Absent, OldFile} : inc = NotBegun(fn, Absent)

\* no IncompleteFile exists
IdleIncomplete == inc = NotBegun(Absent, Absent)

NextIncomplete ==
    \/ \E cks \in {0} \cup Digests, fb \in {"r", "c"}, busy \in BOOLEAN :
           IncEnter(cks, fb, busy)
    \/ \E algo \in Algos : IncInit(algo)
    \/ IncAppend
    \/ \E ok \in BOOLEAN : IncExit(ok)

(***************************************************************************)
(* Downloader (download/downloader.py): the decision                       *)
(***************************************************************************)
\* no RemoteFile has been entered
NoRemoteFile == [opened |-> 0, status |-> 0, body |-> <<>>]

\* Downloader._should_overwrite: "proceed" (yields True), "skipped" (yields
\* the skipped record, then False), "return" (returns having yielded nothing).
\* f: the file at self.dst, ifx: the policy in effect, sz, mt: await
\* self.size, await self.mtime, dg: the first expected digest (0: no digests).
DownloaderShouldOverwrite(f, ifx, sz, dg, mt) ==
    IF ~Lexists(f) THEN "proceed"
    ELSE IF ifx = "error" THEN "return"
    ELSE IF ifx = "skip" THEN "skipped"
    ELSE IF ifx = "overwrite" THEN "proceed"
    ELSE IF ifx = "different" THEN
        IF sz # 0 /\ sz # SizeOf(f.data) THEN "proceed"
        ELSE IF dg # 0 /\ dg = DigestOf(f.data) THEN "skipped"
        ELSE "proceed"
    ELSE IF ifx = "refresh" THEN
        IF mt = "none" THEN "proceed"
        ELSE IF sz = 0 THEN "proceed"
        ELSE IF f.mtime = mt /\ SizeOf(f.data) = sz THEN "skipped"
        ELSE "proceed"
    ELSE "proceed"

\* Downloader.iter: async for status in self._should_overwrite(); the
\* records are passed on, and iter returns unless the last status was True
DlDecide ==
    /\ dlpc = "start"
    /\ LET r == DownloaderShouldOverwrite(dlDst, Effective(dlCurrent, dl.ifexists),
                                          dl.size, dl.digests, dl.mtime)
       IN /\ dlDecided' = r
          /\ dlRecords' = IF r = "skipped" THEN <<"skipped">> ELSE <<>>
          /\ dlpc' = IF r = "proceed" THEN "transfer" ELSE "done"
    /\ UNCHANGED <<dl, dlCurrent, dlDst, dlAttempt, dlPast, dlExc, remote_file>>
    /\ UNCHANGED notDownloader

InitDownloader ==
    /\ dl \in [ifexists : Policies, size : {0, 1}, mtime : {"none", "t1"},
                digests : {0, 1}, ifnodigest : {"r"}, remote : {1},
                range : {FALSE}]
    /\ dlCurrent \in {"none"} \cup Policies
    /\ dlDst \in FileStates
    /\ dlpc = "start"
    /\ dlDecided = "none"
    /\ dlRecords = <<>>
    /\ dlAttempt = 0
    /\ dlPast = <<>>
    /\ dlExc = "none"
    /\ remote_file = NoRemoteFile

\* no Downloader is running
IdleDownloader ==
    /\ dl = [ifexists |-> "different", size |-> 0, mtime |-> "none", digests |-> 0,
             ifnodigest |-> "r", remote |-> 1, range |-> FALSE]
    /\ dlCurrent = "none"
    /\ dlDst = NoFile
    /\ dlpc = "idle"
    /\ dlDecided = "none"
    /\ dlRecords = <<>>
    /\ dlAttempt = 0
    /\ dlPast = <<>>
    /\ dlExc = "none"
    /\ remote_file = NoRemoteFile

NextDecide == DlDecide

(***************************************************************************)
(* Downloader.iter under manager._Guard: the whole run                      *)
(***************************************************************************)
\* what a step of the transfer leaves alone
notDownload == <<fileVars, actVars, scVars, concVars, mgrVars, rfVars, sdVars>>

\* the bytes the server holds for data d, one value per chunk
BytesOf(d) == [i \in 1..SizeOf(d) |-> 10 * d + i]

\* a chunk of a body that is not the data: the page sent with an error status
Junk == 99
Pages == {<<>>, <<Junk>>}

\* the data in a file that holds bytes b after a fetch of data d (2: neither
\* of the data a server holds here)
DataOf(b, d) == IF b = BytesOf(d) THEN d ELSE 2

\* RemoteFile.__aenter__ and RemoteFile.iter: the response to the GET and the
\* chunks the iteration will yield, for a transfer that starts at offset k.
\* range: has_range (the server answers 206 to `Range: bytes=0-0`); st: the
\* status the server gives a request it can satisfy; page: the body it sends
\* with an error status.  The status is never looked at: the body of any
\* response is iterated.  With `Range: bytes=k-` and k not below the length
\* of the data the server answers 416; without has_range the whole body is
\* requested and _skip(k) drops its first k bytes.
Response(body, k, range, st, page) ==
    IF st # 200 THEN [status |-> st, body |-> page]
    ELSE IF k > 0 /\ range
    THEN IF k < Len(body)
         THEN [status |-> 200, body |-> SubSeq(body, k + 1, Len(body))]
         ELSE [status |-> 416, body |-> page]
    ELSE [status |-> 200, body |-> SubSeq(body, k + 1, Len(body))]

\* the iteration ends after having yielded recs
DlFinish(recs) ==
    /\ dlRecords' = dlRecords \o recs
    /\ dlpc' = "done"

\* manager._Guard.iter: an exception that leaves Downloader.iter becomes one
\* error record
Caught == DlFinish(<<"error">>)

\* size = await self.size; yield {'size': size}
DlSize ==
    /\ dlpc = "transfer"
    /\ dlRecords' = Append(dlRecords, "size")
    /\ dlpc' = "attempt"
    /\ dlAttempt' = 0
    /\ UNCHANGED <<dl, dlCurrent, dlDst, dlDecided, dlPast, dlExc, remote_file>>
    /\ UNCHANGED incVars
    /\ UNCHANGED notDownload

\* One pass through the head of `for attempt in range(self.max_attemps)`:
\* IncompleteFile(...) is built and entered, the loop is left at once when
\* the partial file already has `size` bytes, and RemoteFile(...) is entered
\* otherwise.  busy: another process holds the download lock; st, page: what
\* the server answers.
DlAttempt(busy, st, page) ==
    /\ dlpc = "attempt"
    /\ IF dlAttempt >= MaxAttempts
       THEN \* range(self.max_attemps) is exhausted
            /\ DlFinish(<<>>)
            /\ UNCHANGED <<dlDst, dlExc, remote_file, incVars>>
       ELSE IF dl.digests # 0
       THEN \* IncompleteFile.__init__: hasattr(checkalgo, hashlib) -> TypeError
            /\ Caught
            /\ dlExc' = "type"
            /\ UNCHANGED <<dlDst, remote_file, incVars>>
       ELSE IF busy
       THEN \* RuntimeError: Could not acquire download lock
            /\ Begin(0, dl.ifnodigest, TRUE)
            /\ Caught
            /\ dlExc' = "lock"
            /\ UNCHANGED <<dlDst, remote_file>>
       ELSE IF /\ dl.size # 0
               /\ Continue(incTempname.exists, 0, incCheckname, dl.ifnodigest)
               /\ Len(incTempname.bytes) = dl.size
       THEN \* downloaded == size: break; __aexit__ runs without an exception
            \* and the loop is left with nothing more yielded
            /\ inc' = [inc EXCEPT !.count = @ + 1, !.checksum = 0,
                                  !.fallback = dl.ifnodigest,
                                  !.filename = incTempname,
                                  !.tempname = Absent,
                                  !.lockname = FALSE,
                                  !.checkname = 0,
                                  !.lock = FALSE,
                                  !.mode = "-", !.offset = -1,
                                  !.pc = "done"]
            /\ dlDst' = [data |-> DataOf(incTempname.bytes, dlRemote),
                         mtime |-> Now]
            /\ DlFinish(<<>>)
            /\ dlExc' = "none"
            /\ UNCHANGED remote_file
       ELSE /\ Begin(0, dl.ifnodigest, FALSE)
            /\ LET k == IF Continue(incTempname.exists, 0, incCheckname,
                                    dl.ifnodigest)
                        THEN Len(incTempname.bytes) ELSE 0
                   r == Response(BytesOf(dlRemote), k, dl.range, st, page)
               IN remote_file' = [opened |-> remote_file.opened + 1,
                                  status |-> r.status, body |-> r.body]
            /\ dlpc' = "body"
            /\ UNCHANGED <<dlDst, dlRecords, dlExc>>
    /\ UNCHANGED <<dl, dlCurrent, dlDecided, dlAttempt, dlPast>>
    /\ UNCHANGED notDownload

\* async for chunk in remote_file: local_file.append(chunk); yield out
DlChunk ==
    /\ dlpc = "body" /\ remote_file.body # <<>>
    /\ AppendChunk(Head(remote_file.body))
    /\ remote_file' = [remote_file EXCEPT !.body = Tail(@)]
    /\ dlRecords' = Append(dlRecords, "progress")
    /\ UNCHANGED <<dl, dlCurrent, dlDst, dlpc, dlDecided, dlAttempt, dlPast, dlExc>>
    /\ UNCHANGED notDownload

\* the attempt after which no other is made
LastAttempt(attempt) == 1 + attempt >= MaxAttempts

\* a handler that retries whatever was raised while attempts are left
DlFailRetryAll(kind) ==
    /\ dlpc = "body"
    /\ End(FALSE)
    /\ dlExc' = kind
    /\ remote_file' = [remote_file EXCEPT !.body = <<>>]
    /\ IF ~LastAttempt(dlAttempt)
       THEN /\ dlAttempt' = dlAttempt + 1
            /\ dlpc' = "attempt"
            /\ UNCHANGED dlRecords
       ELSE DlFinish(<<"error">>) /\ UNCHANGED dlAttempt
    /\ UNCHANGED <<dl, dlCurrent, dlDst, dlDecided, dlPast>>
    /\ UNCHANGED notDownload

\* An exception in the body of the with-blocks.  kind: "retry" is an
\* aiohttp.web.HTTPException whose status is in RETRY_STATUSES or an
\* asyncio.TimeoutError, "fatal" an aiohttp.web.HTTPException with another
\* status, "value" a ValueError, "other" any other exception.
DlFail(kind) ==
    /\ dlpc = "body"
    /\ End(FALSE)
    /\ dlExc' = kind
    /\ remote_file' = [remote_file EXCEPT !.body = <<>>]
    /\ IF kind = "retry" /\ ~LastAttempt(dlAttempt)
       THEN \* sleep a little and retry
            /\ dlAttempt' = dlAttempt + 1
            /\ dlpc' = "attempt"
            /\ UNCHANGED dlRecords
       ELSE IF kind \in {"value", "other"}
       THEN \* raise
            Caught /\ UNCHANGED dlAttempt
       ELSE \* yield {'status': 'error', 'message': str(exc)}; return
            DlFinish(<<"error">>) /\ UNCHANGED dlAttempt
    /\ UNCHANGED <<dl, dlCurrent, dlDst, dlDecided, dlPast>>
    /\ UNCHANGED notDownload

\* The remote file is exhausted: __aexit__ publishes the file, then the
\* checks: no digest was expected on this path, so {'checksum': '-'}, then
\* the mtime is set when one is known, then {'status': 'done'}.
DlEnd ==
    /\ dlpc = "body" /\ remote_file.body = <<>>
    /\ End(TRUE)
    /\ dlExc' = "none"
    /\ IF dl.mtime # "none"
       THEN /\ dlDst' = [data |-> DataOf(incTempname.bytes, dlRemote),
                         mtime |-> dl.mtime]
            /\ DlFinish(<<"checksum -", "setting mtime", "done">>)
       ELSE /\ dlDst' = [data |-> DataOf(incTempname.bytes, dlRemote),
                         mtime |-> Now]
            /\ DlFinish(<<"checksum -", "done">>)
    /\ UNCHANGED <<dl, dlCurrent, dlDecided, dlAttempt, dlPast, remote_file>>
    /\ UNCHANGED notDownload

\* the same Downloader is iterated again
DlAgain ==
    /\ dlpc = "done" /\ dlRun < MaxRuns
    /\ dlPast' = Append(dlPast, [records |-> dlRecords, dst |-> dlDst])
    /\ dlpc' = "start"
    /\ dlDecided' = "none"
    /\ dlRecords' = <<>>
    /\ dlAttempt' = 0
    /\ dlExc' = "none"
    /\ remote_file' = NoRemoteFile
    /\ UNCHANGED <<dl, dlCurrent, dlDst>>
    /\ UNCHANGED incVars
    /\ UNCHANGED notDownload

\* a Downloader about to be iterated: the expected size, when given, is the
\* size of the remote data; X.download is absent or holds the first bytes of
\* the data, left by a transfer that was interrupted
InitDownload ==
    /\ dl \in [ifexists : Policies, size : {0, 1, 2}, mtime : {"none", "t1"},
               digests : {0, 1}, ifnodigest : {"r", "c"}, remote : {1, 3},
               range : BOOLEAN]
    /\ dl.size \in {0, SizeOf(dl.remote)}
    /\ dlCurrent \in {"none", "skip"}
    /\ dlDst \in {NoFile, [data |-> 1, mtime |-> "t1"], [data |-> 3, mtime |-> "t2"]}
    /\ dlpc = "start"
    /\ dlDecided = "none"
    /\ dlRecords = <<>>
    /\ dlAttempt = 0
    /\ dlPast = <<>>
    /\ dlExc = "none"
    /\ remote_file = NoRemoteFile
    /\ \E n \in 0..SizeOf(dl.remote), e \in BOOLEAN :
          inc = NotBegun(IF Lexists(dlDst) THEN OldFile ELSE Absent,
                         IF e THEN [exists |-> TRUE,
                                    bytes |-> SubSeq(BytesOf(dl.remote), 1, n)]
                         ELSE Absent)

NextDownload ==
    \/ DlDecide
    \/ DlSize
    \/ \E busy \in BOOLEAN, st \in {200, 404, 503}, page \in Pages :
           DlAttempt(busy, st, page)
    \/ DlChunk
    \/ \E kind \in {"retry", "fatal", "value", "other"} : DlFail(kind)
    \/ DlEnd
    \/ DlAgain

\* one iteration of a Downloader
NextFetch ==
    \/ DlDecide
    \/ DlSize
    \/ \E busy \in BOOLEAN, st \in {200, 404, 503}, page \in Pages :
           DlAttempt(busy, st, page)
    \/ DlChunk
    \/ \E kind \in {"retry", "fatal", "value", "other"} : DlFail(kind)
    \/ DlEnd

(***************************************************************************)
(* DownloadManager (download/manager.py)                                   *)
(***************************************************************************)
Dls == 1..NumDl

\* the i-th record downloader d yields: the last one of a downloader that
\* does not raise is its terminal record
Record(d, i) ==
    [path |-> d, k |-> i,
     status |-> IF i = mgrPlan[d].n /\ ~mgrPlan[d].raises THEN "done"
                ELSE "progress"]

\* _Guard.iter: the record an exception is converted to
ErrorRecord(d) == [path |-> d, k |-> mgrPlan[d].n + 1, status |-> "error"]

\* a run in which no downloader is wrapped
GuardedNever == FALSE

\* guard = {'yield': _Guard, 'raise': lambda x: x}[self.on_error]
Guarded == mgrOnError = "yield"

\* a queue that hands out the newest record first
PutFront(q, rec) == <<rec>> \o q

\* statuses.put_nowait(status)
Put(q, rec) == Append(q, rec)

Running == {d \in Dls : mgrSt[d] = "running"}

\* run_async: `for downloader in self.downloaders`, the next iteration
RunAsyncStart ==
    /\ mgrMode = "async" /\ mgrpc = "run"
    /\ Running = {} /\ mgrNext <= NumDl
    /\ mgr' = [mgr EXCEPT !.st[mgrNext] = "running", !.next = @ + 1]
    /\ UNCHANGED notManager

\* run_async: async for status in _run_async(downloader, path):
\*     await loop.run_in_executor(pool, self.out, status)
RunAsyncStep(d) ==
    /\ mgrMode = "async" /\ mgrpc = "run"
    /\ mgrSt[d] = "running" /\ mgrPos[d] < mgrPlan[d].n
    /\ mgr' = [mgr EXCEPT !.pos[d] = @ + 1,
                          !.feed = Append(@, Record(d, mgrPos[d] + 1))]
    /\ UNCHANGED notManager

\* run_async: the downloader is exhausted or raises; under _Guard the
\* exception becomes one more record, else it leaves run_async and run
RunAsyncEnd(d) ==
    /\ mgrMode = "async" /\ mgrpc = "run"
    /\ mgrSt[d] = "running" /\ mgrPos[d] = mgrPlan[d].n
    /\ mgr' = IF ~mgrPlan[d].raises
              THEN [mgr EXCEPT !.st[d] = "ended"]
              ELSE IF Guarded
              THEN [mgr EXCEPT !.st[d] = "ended",
                               !.feed = Append(@, ErrorRecord(d))]
              ELSE [mgr EXCEPT !.st[d] = "raised", !.pc = "raised"]
    /\ UNCHANGED notManager

\* run_async: the for loop is over
RunAsyncReturn ==
    /\ mgrMode = "async" /\ mgrpc = "run"
    /\ Running = {} /\ mgrNext > NumDl
    /\ mgr' = [mgr EXCEPT !.pc = "returned"]
    /\ UNCHANGED notManager

\* run_threaded: jobs.put_nowait(pool.apply_async(_run, ...)) for the next
\* downloader; unpack_statuses() is called next
Submit ==
    /\ mgrMode = "threaded" /\ mgrpc = "run"
    /\ mgrNext <= NumDl
    /\ mgr' = [mgr EXCEPT !.st[mgrNext] = "queued", !.next = @ + 1,
                          !.jobs_queue = Append(@, mgrNext),
                          !.pc = "statuses"]
    /\ UNCHANGED notManager

\* a worker of Pool(self.jobs) takes the task submitted first
WorkerStart(d) ==
    /\ mgrMode = "threaded"
    /\ mgrSt[d] = "queued"
    /\ \A e \in Dls : e < d => mgrSt[e] # "queued"
    /\ Cardinality(Running) < mgrJobs
    /\ mgr' = [mgr EXCEPT !.st[d] = "running"]
    /\ UNCHANGED notManager

\* _run_async_queue: async for status in downloader:
\*     statuses.put_nowait(status)
WorkerStep(d) ==
    /\ mgrMode = "threaded"
    /\ mgrSt[d] = "running" /\ mgrPos[d] < mgrPlan[d].n
    /\ mgr' = [mgr EXCEPT !.pos[d] = @ + 1,
                          !.statuses = Put(@, Record(d, mgrPos[d] + 1))]
    /\ UNCHANGED notManager

\* _run ends in the worker: the downloader is exhausted or raises; under
\* _Guard the exception becomes one more record, else it is kept in the
\* AsyncResult of the job, which is ready either way
WorkerEnd(d) ==
    /\ mgrMode = "threaded"
    /\ mgrSt[d] = "running" /\ mgrPos[d] = mgrPlan[d].n
    /\ mgr' = IF ~mgrPlan[d].raises
              THEN [mgr EXCEPT !.st[d] = "ended"]
              ELSE IF Guarded
              THEN [mgr EXCEPT !.st[d] = "ended",
                               !.statuses = Put(@, ErrorRecord(d))]
              ELSE [mgr EXCEPT !.st[d] = "raised"]
    /\ UNCHANGED notManager

\* a job that is never ready
ReadyAlways(d) == TRUE

\* job.ready(): _run has ended in the worker, with or without an exception
Ready(d) == mgrSt[d] \in {"ended", "raised"}

\* job = jobs.get_nowait(); if not job.ready(): jobs.put_nowait(job)
Requeued(q) == IF Ready(Head(q)) THEN Tail(q) ELSE Append(Tail(q), Head(q))

\* where run_threaded goes on after unpack_statuses(): the next downloader
\* of the for loop, or unpack_jobs() after the last one
AfterStatuses == IF mgrNext <= NumDl THEN "run" ELSE "unpack"

\* unpack_statuses(forever=False), the loop test and the first half of an
\* iteration: while jobs.qsize() > self.jobs: status = statuses.get_nowait();
\* self.out(status), and `except Exception: break` when the queue is empty
UnpackStatus ==
    /\ mgrMode = "threaded" /\ mgrpc = "statuses"
    /\ mgr' = IF Len(mgrJobQueue) > mgrJobs /\ mgrStatuses # <<>>
              THEN [mgr EXCEPT !.statuses = Tail(@),
                               !.feed = Append(@, Head(mgrStatuses)),
                               !.pc = "job"]
              ELSE [mgr EXCEPT !.pc = AfterStatuses]
    /\ UNCHANGED notManager

\* unpack_statuses(forever=False), the second half of an iteration: a job
\* is taken from jobs and put back unless it is ready
UnpackStatusJob ==
    /\ mgrMode = "threaded" /\ mgrpc = "job"
    /\ mgr' = [mgr EXCEPT !.jobs_queue = Requeued(@), !.pc = "statuses"]
    /\ UNCHANGED notManager

\* unpack_jobs, one iteration up to the call of unpack_statuses: a job is
\* taken from jobs and put back unless it is ready (job.ready(), never
\* job.get()); when jobs is empty, run_threaded returns
UnpackJobs ==
    /\ mgrMode = "threaded" /\ mgrpc = "unpack"
    /\ mgr' = IF mgrJobQueue = <<>>
              THEN [mgr EXCEPT !.pc = "returned"]
              ELSE [mgr EXCEPT !.jobs_queue = Requeued(@), !.pc = "forever"]
    /\ UNCHANGED notManager

\* unpack_statuses(forever=True), one iteration: a record is handed to
\* self.out, or the queue is empty and the loop is left
UnpackForever ==
    /\ mgrMode = "threaded" /\ mgrpc = "forever"
    /\ mgr' = IF mgrStatuses # <<>>
              THEN [mgr EXCEPT !.statuses = Tail(@),
                               !.feed = Append(@, Head(mgrStatuses))]
              ELSE [mgr EXCEPT !.pc = "unpack"]
    /\ UNCHANGED notManager

\* the sizes of the Pool: one worker, or several at once
PoolSizes == {1, 2}

\* a batch about to be run
NoBatch(m, oe, j, pl) ==
    [ifexists |-> "None",
     mode |-> m, on_error |-> oe, jobs |-> j, plan |-> pl, next |-> 1,
     st |-> [d \in Dls |-> "new"], pos |-> [d \in Dls |-> 0],
     jobs_queue |-> <<>>, statuses |-> <<>>, feed |-> <<>>, pc |-> "run"]

\* a downloader that does not raise yields at least its terminal record
Plans ==
    {pl \in [Dls -> [n : 0..MaxRecs, raises : BOOLEAN]] :
        \A d \in Dls : pl[d].raises \/ pl[d].n >= 1}

InitManager ==
    \E m \in {"async", "threaded"}, oe \in {"yield", "raise"},
       j \in PoolSizes, pl \in Plans :
        mgr = NoBatch(m, oe, j, pl)

\* no DownloadManager is running
IdleManager ==
    mgr = [NoBatch("async", "yield", 1, [d \in Dls |-> [n |-> 1, raises |-> FALSE]])
           EXCEPT !.pc = "idle"]

\* download/downloader.py IfExists.from_any: None gives IfExists.default
FromAny(x) == IF x = "None" THEN ScopeDefault ELSE x

\* DownloadManager.__init__: self.ifexists = IfExists.from_any(ifexists);
\* run_async, run_threaded: with IfExists(self.ifexists) is entered
BatchEnter ==
    /\ mgrpc = "run" /\ dlpc = "start" /\ dlScopes = <<>>
    /\ DlScopeEnter(FromAny(mgrIfExists))

\* a Downloader of the batch decides inside the with-block
BatchDecide ==
    /\ dlScopes # <<>>
    /\ DlDecide

\* the with-block of run_async, run_threaded is left
BatchExit ==
    /\ dlpc \in {"transfer", "done"}
    /\ DlScopeExit

\* a DownloadManager about to run one Downloader, with no IfExists scope
\* open around it
InitBatch ==
    /\ InitDownloader /\ dlCurrent = "none"
    /\ \E x \in {"None"} \cup Policies :
          mgr = [NoBatch("async", "yield", 1,
                         [d \in Dls |-> [n |-> 1, raises |-> FALSE]])
                 EXCEPT !.ifexists = x]

NextBatch ==
    \/ BatchEnter
    \/ BatchDecide
    \/ BatchExit

NextManager ==
    \/ RunAsyncStart
    \/ \E d \in Dls : RunAsyncStep(d)
    \/ \E d \in Dls : RunAsyncEnd(d)
    \/ RunAsyncReturn
    \/ Submit
    \/ \E d \in Dls : WorkerStart(d)
    \/ \E d \in Dls : WorkerStep(d)
    \/ \E d \in Dls : WorkerEnd(d)
    \/ UnpackStatus
    \/ UnpackStatusJob
    \/ UnpackJobs
    \/ UnpackForever

(***************************************************************************)
(* IncompleteFile in several processes on the same destination             *)
(***************************************************************************)
\* the lock file a process that calls InterProcessLock.acquire now opens:
\* the one at X.lock, or a new one when X.lock is absent
LockFile == IF concLockname = 0 THEN concCreated + 1 ELSE concLockname

\* no process holds a lock on lock file i
Unlocked(i) == \A q \in Procs : concLock[q] # i

\* IncompleteFile.__aenter__ in process p; cks: a checksum was given.  The
\* lock file is opened (created when absent) and locked without blocking;
\* when that fails RuntimeError is raised, else X.download is opened (kept or
\* created anew) and X.checksum written when a checksum was given.
ConcBegin(p, cks) ==
    /\ concpc[p] \in {"idle", "failed"}
    /\ concCount < MaxTransfers
    /\ conc' = IF Unlocked(LockFile)
               THEN [conc EXCEPT !.count = @ + 1,
                                 !.lockname = LockFile,
                                 !.created = IF concLockname = 0 THEN @ + 1 ELSE @,
                                 !.lock[p] = LockFile,
                                 !.tempname = p,
                                 !.checkname = cks \/ @,
                                 !.pc[p] = "open"]
               ELSE [conc EXCEPT !.count = @ + 1,
                                 !.lockname = LockFile,
                                 !.created = IF concLockname = 0 THEN @ + 1 ELSE @,
                                 !.pc[p] = "failed"]
    /\ UNCHANGED notConc

\* IncompleteFile.__aexit__ in process p, up to self.lock.release: without an
\* exception X.download is renamed to X (FileNotFoundError when it is gone)
\* and the lock is released; with one the lock is released and __aexit__ is
\* over.
ConcExitRelease(p, ok) ==
    /\ concpc[p] = "open"
    /\ conc' = IF ok
               THEN [conc EXCEPT !.filename = IF concTempname # 0
                                              THEN concTempname ELSE @,
                                 !.tempname = 0,
                                 !.lock[p] = 0,
                                 !.pc[p] = "closing"]
               ELSE [conc EXCEPT !.lock[p] = 0,
                                 !.pc[p] = "idle"]
    /\ UNCHANGED notConc

\* the rest of __aexit__ without an exception: after the release, X.download,
\* X.lock and X.checksum are unlinked
ConcExitUnlink(p) ==
    /\ concpc[p] = "closing"
    /\ conc' = [conc EXCEPT !.tempname = 0,
                            !.lockname = 0,
                            !.checkname = FALSE,
                            !.pc[p] = "idle"]
    /\ UNCHANGED notConc

\* no process has an IncompleteFile
IdleConc ==
    conc = [pc |-> [p \in Procs |-> "idle"], lock |-> [p \in Procs |-> 0],
            lockname |-> 0, created |-> 0, tempname |-> 0,
            checkname |-> FALSE, filename |-> 0, count |-> 0]

InitConc == IdleConc

NextConc ==
    \/ \E p \in Procs, cks \in BOOLEAN : ConcBegin(p, cks)
    \/ \E p \in Procs, ok \in BOOLEAN : ConcExitRelease(p, ok)
    \/ \E p \in Procs : ConcExitUnlink(p)

(***************************************************************************)
(* RemoteFile (download/remote.py)                                         *)
(***************************************************************************)
\* longest body, largest chunk_size, longest chain of redirects
MaxBody == 3
MaxChunk == 2
MaxHops == 2

REDIRECTION == {300, 301, 302, 303, 307, 308}

\* a request without a Range header
NoRange == -1
\* self.buffer = None
NoneBuffer == <<-1>>
\* the object session.head() returns when it is not awaited: no request is
\* sent and it has no attribute `status`
NoResponse == [status |-> 0, body |-> <<>>]
NoCall ==
    [method |-> "none", events |-> <<>>, first |-> 0, r |-> NoResponse,
     exc |-> "none", authed |-> FALSE]

Min(a, b) == IF a <= b THEN a ELSE b

\* the bodies a server holds: byte i of a body is i
Bodies == {[i \in 1..n |-> i] : n \in 0..MaxBody}

\* what is sent: a request at the at-th location of the chain, or a call of
\* the authentication callback
Event(m, at, rs) == [method |-> m, at |-> at, range |-> rs]

\* the answer of the server to a request at location `at` with the header
\* `Range: bytes=rs-` (NoRange: without it), redirects not followed
Answer(srv, authed, at, rs) ==
    IF at < srv.hops THEN [status |-> srv.code, body |-> <<>>]
    ELSE IF srv.locked /\ ~authed THEN [status |-> 401, body |-> srv.page]
    ELSE IF rs # NoRange /\ srv.range
    THEN IF rs < Len(srv.body)
         THEN [status |-> 206, body |-> SubSeq(srv.body, rs + 1, Len(srv.body))]
         ELSE [status |-> 416, body |-> srv.page]
    ELSE [status |-> 200, body |-> srv.body]

\* session.get(url): aiohttp follows the redirects of a GET itself
AnswerGet(srv, authed, rs) == Answer(srv, authed, srv.hops, rs)

\* RemoteFile._try_head (m = "HEAD") and RemoteFile._try_get (m = "GET"):
\*   r = await self.session.head(url)
\*   if r.status in self.REDIRECTION:
\*       url = urlparse(r.headers['Location']); r = self.session.head(url)
\*   if r.status not in (200, 206) and self.auth:
\*       await self.auth(self.session); r = await self.session.head(url)
\*   [_try_get only]  r = await self.session.get(url)
\* After a redirect r is an object that was not awaited: `r.status` raises
\* AttributeError.  self.auth is a bound method and always true.
Try(m, srv, authed, rs) ==
    LET r1 == Answer(srv, authed, 0, rs)
        again == r1.status \notin {200, 206}
        authed2 == IF again THEN authed \/ srv.key ELSE authed
        r2 == IF again THEN Answer(srv, authed2, 0, rs) ELSE r1
        heads == <<Event("HEAD", 0, rs)>>
                     \o (IF again
                         THEN <<Event("AUTH", 0, NoRange), Event("HEAD", 0, rs)>>
                         ELSE <<>>)
    IN IF r1.status \in REDIRECTION
       THEN [method |-> m, events |-> <<Event("HEAD", 0, rs)>>,
             first |-> r1.status, r |-> NoResponse, exc |-> "AttributeError",
             authed |-> authed]
       ELSE IF m = "HEAD"
       THEN [method |-> m, events |-> heads, first |-> r1.status,
             r |-> [r2 EXCEPT !.body = <<>>], exc |-> "none",
             authed |-> authed2]
       ELSE [method |-> m, events |-> Append(heads, Event("GET", 0, rs)),
             first |-> r1.status, r |-> AnswerGet(srv, authed2, rs),
             exc |-> "none", authed |-> authed2]

\* RemoteFile._check_has_range: r = await self._try_head(url, headers=
\* {'Range': 'bytes=0-0'}); answer = (r.status == 206); `finally: return
\* answer` swallows an exception
CheckHasRange(probe) ==
    IF probe.exc = "none" /\ probe.r.status = 206 THEN "True" ELSE "False"

\* the properties size and mtime before the file is entered:
\* r = await self._try_head(self.url.geturl()); read once at most here
RfHead ==
    /\ rfpc = "new" /\ rfCall = NoCall
    /\ LET call == Try("HEAD", rfServer, rfAuthed, NoRange)
       IN rf' = [rf EXCEPT !.call = call, !.authed = call.authed,
                           !.log = @ \o call.events]
    /\ UNCHANGED notRemote

\* RemoteFile.__aenter__ up to the call of _skip
RfEnter ==
    /\ rfpc = "new"
    /\ LET asks == rfOffset > 0 /\ rfHasRange = "None"
           probe == Try("HEAD", rfServer, rfAuthed, 0)
           has_range == IF asks THEN CheckHasRange(probe) ELSE rfHasRange
           authed1 == IF asks THEN probe.authed ELSE rfAuthed
           rs == IF rfOffset > 0 /\ has_range = "True" THEN rfOffset ELSE NoRange
           call == Try("GET", rfServer, authed1, rs)
       IN rf' = [rf EXCEPT
                   !.has_range = has_range,
                   !.authed = call.authed,
                   !.call = call,
                   !.log = @ \o (IF asks THEN probe.events ELSE <<>>)
                             \o call.events,
                   !.iterator = call.r.body,
                   !.nbytes = IF rfOffset > 0 /\ has_range # "True"
                              THEN rfOffset ELSE 0,
                   !.pc = IF call.exc # "none" THEN "raised"
                          ELSE IF rfOffset > 0 /\ has_range # "True"
                          THEN "skip" ELSE "iter"]
    /\ UNCHANGED notRemote

\* RemoteFile._skip, one iteration of `while nbytes > 0`: chunk = await
\* anext(self.iterator); nbytes -= len(chunk), and after the last one
\* `if nbytes < 0: self.buffer = chunk[nbytes:]`.  c is the length of the
\* chunk iter_chunked hands out.  At the end of the body anext raises
\* StopAsyncIteration, which `except StopIteration` does not catch.
RfSkip(c) ==
    /\ rfpc = "skip"
    /\ IF rfIterator = <<>>
       THEN /\ c = 1
            /\ rf' = [rf EXCEPT !.pc = "raised"]
       ELSE /\ c <= Min(rf.chunk_size, Len(rfIterator))
            /\ LET chunk == SubSeq(rfIterator, 1, c)
                   nbytes == rfNbytes - c
               IN rf' = [rf EXCEPT
                           !.iterator = SubSeq(@, c + 1, Len(@)),
                           !.nbytes = nbytes,
                           !.buffer = IF nbytes < 0
                                      THEN SubSeq(chunk, c + nbytes + 1, c)
                                      ELSE @,
                           !.pc = IF nbytes > 0 THEN "skip" ELSE "iter"]
    /\ UNCHANGED notRemote

\* RemoteFile.iter: if self.buffer is not None: yield self.buffer
RfIter ==
    /\ rfpc = "iter"
    /\ rf' = [rf EXCEPT
                !.yielded = IF rfBuffer # NoneBuffer THEN @ \o rfBuffer ELSE @,
                !.pc = IF rfIterator = <<>> THEN "done" ELSE "chunks"]
    /\ UNCHANGED notRemote

\* RemoteFile.iter: async for chunk in self.iterator: yield chunk
RfChunk(c) ==
    /\ rfpc = "chunks"
    /\ c <= Min(rf.chunk_size, Len(rfIterator))
    /\ rf' = [rf EXCEPT
                !.yielded = @ \o SubSeq(rfIterator, 1, c),
                !.iterator = SubSeq(@, c + 1, Len(@)),
                !.pc = IF c = Len(rfIterator) THEN "done" ELSE "chunks"]
    /\ UNCHANGED notRemote

\* the servers: a redirect status matters only where there is a redirect,
\* the callback only where the server wants authentication
Servers ==
    {srv \in [body : Bodies, range : BOOLEAN, hops : 0..MaxHops,
              code : REDIRECTION, locked : BOOLEAN, key : BOOLEAN,
              page : Pages] :
        /\ srv.hops = 0 => srv.code = 301
        /\ ~srv.locked => ~srv.key}

\* RemoteFile.__init__
NewRemoteFile(srv, k, cs) ==
    [server |-> srv, offset |-> k, chunk_size |-> cs, authed |-> FALSE,
     has_range |-> "None", call |-> NoCall, log |-> <<>>,
     iterator |-> <<>>, nbytes |-> 0, buffer |-> NoneBuffer,
     yielded |-> <<>>, pc |-> "new"]

\* a RemoteFile with an offset not beyond the length of the body
InitRemote ==
    \E srv \in Servers, cs \in 1..MaxChunk :
        \E k \in 0..Len(srv.body) :
            rf = NewRemoteFile(srv, k, cs)

\* no RemoteFile
IdleRemote ==
    rf = [NewRemoteFile([body |-> <<>>, range |-> FALSE, hops |-> 0,
                         code |-> 301, locked |-> FALSE, key |-> FALSE,
                         page |-> <<>>], 0, 1)
          EXCEPT !.pc = "idle"]

NextRemote ==
    \/ RfHead
    \/ RfEnter
    \/ \E c \in 1..MaxChunk : RfSkip(c)
    \/ RfIter
    \/ \E c \in 1..MaxChunk : RfChunk(c)

(***************************************************************************)
(* sort_digests (utils/digests.py)                                         *)
(***************************************************************************)
\* largest number of entries of a dict of digests
MaxDigests == 3

\* DigestPriority = IntEnum('DigestPriority', [...]): values from 1
DigestPriority ==
    <<"md5", "sha1", "sha256", "sha512", "sha224", "sha384",
      "sha3_224", "sha3_256", "sha3_384", "sha3_512",
      "shake_128", "shake_256", "blake2b", "blake2s">>

\* float('inf')
Inf == 1000

\* digestsorter: getattr(priority, x[0], float('inf'))
DigestSorter(x) ==
    IF \E i \in DOMAIN DigestPriority : DigestPriority[i] = x
    THEN CHOOSE i \in DOMAIN DigestPriority : DigestPriority[i] = x
    ELSE Inf

\* sorted() is stable: x goes behind every entry whose key is not greater
RECURSIVE InsertSorted(_, _)
InsertSorted(x, seq) ==
    IF seq = <<>> THEN <<x>>
    ELSE IF DigestSorter(Head(seq)) <= DigestSorter(x)
    THEN <<Head(seq)>> \o InsertSorted(x, Tail(seq))
    ELSE <<x>> \o seq

RECURSIVE Sorted(_)
Sorted(seq) ==
    IF seq = <<>> THEN <<>>
    ELSE InsertSorted(seq[Len(seq)], Sorted(SubSeq(seq, 1, Len(seq) - 1)))

\* a dict that is returned as it was given
Unsorted(d) == d

\* sort_digests(digests): {k: v for k, v in sorted(digests.items(), key=
\* digestsorter)}; a dict is the sequence of its keys in insertion order
\* (each value stays with its key)
SortDigests(d) == Sorted(d)

\* the names of algorithms given: some of DigestPriority, some not
Algorithms == {"md5", "sha1", "sha256", "sha512", "blake2b", "crc32", "etag"}

\* the dicts of at most MaxDigests entries: no key twice
Dicts ==
    {d \in UNION {[1..n -> Algorithms] : n \in 0..MaxDigests} :
        \A i, j \in DOMAIN d : i # j => d[i] # d[j]}

\* sort_digests has not been called
NoneSorted == <<"None">>

\* Action.__init__: if digests: digests = sort_digests(digests)
SortDigestsCall ==
    /\ sd.sorted = NoneSorted
    /\ sd.digests # <<>>
    /\ sd' = [sd EXCEPT !.sorted = SortDigests(sd.digests)]
    /\ UNCHANGED notDigests

InitDigests == \E d \in Dicts : sd = [digests |-> d, sorted |-> NoneSorted]

IdleDigests == sd = [digests |-> <<>>, sorted |-> NoneSorted]

NextDigests == SortDigestsCall

\* the components that take no part in the specifications of the others
IdleRest == IdleConc /\ IdleManager /\ IdleRemote /\ IdleDigests

(***************************************************************************)
(* Specification of concurrent File transactions                           *)
(***************************************************************************)
InitFiles ==
    /\ mode = [p \in Procs |-> "-"]
    /\ pc = [p \in Procs |-> "idle"]
    /\ exc = [p \in Procs |-> "none"]
    /\ tempdir = FALSE
    /\ tempname = 0
    /\ lockname = 0
    /\ filename \in {0, OLD}
    /\ lock = [p \in Procs |-> 0]
    /\ fd = [p \in Procs |-> 0]
    /\ written = [p \in Procs |-> 0]
    /\ content = [f \in Procs |-> <<>>]
    /\ overlap = [p \in Procs |-> FALSE]

\* no File transaction is running
IdleFile == InitFiles /\ filename = 0

InitFile ==
    InitFiles /\ IdleAction /\ IdleDownloader /\ IdleScope /\ IdleIncomplete /\ IdleRest

NextFile ==
    \E p \in Procs :
        \/ \E m \in Modes : EnterPrepare(p, m)
        \/ EnterLock(p)
        \/ TransformOpen(p)
        \/ TransformWrite(p)
        \/ TransformRaise(p)
        \/ TransformReturn(p)
        \/ ExitPublish(p)
        \/ ExitRelease(p)
        \/ ExitRmtree(p)

SpecFile == InitFile /\ [][NextFile]_vars

\* the same transactions run by NumPair processes only
NextFilePair ==
    \E p \in 1..NumPair :
        \/ \E m \in Modes : EnterPrepare(p, m)
        \/ EnterLock(p)
        \/ TransformOpen(p)
        \/ TransformWrite(p)
        \/ TransformRaise(p)
        \/ TransformReturn(p)
        \/ ExitPublish(p)
        \/ ExitRelease(p)
        \/ ExitRmtree(p)

SpecFilePair == InitFile /\ [][NextFilePair]_vars

(***************************************************************************)
(* Specification of one Action iterated to exhaustion                      *)
(***************************************************************************)
InitActionRun ==
    IdleFile /\ InitAction /\ IdleDownloader /\ IdleScope /\ IdleIncomplete /\ IdleRest

SpecAction == InitActionRun /\ [][NextAction]_vars

(***************************************************************************)
(* Specification of the decision of one Downloader                         *)
(***************************************************************************)
InitDecide ==
    IdleFile /\ IdleAction /\ InitDownloader /\ IdleScope /\ IdleIncomplete /\ IdleRest

SpecDecide == InitDecide /\ [][NextDecide]_vars

(***************************************************************************)
(* Specification of nested IfExists scopes                                 *)
(***************************************************************************)
InitScope ==
    IdleFile /\ IdleAction /\ IdleDownloader /\ IdleScope /\ IdleIncomplete /\ IdleRest

SpecScope == InitScope /\ [][NextScope]_vars

(***************************************************************************)
(* Specification of successive IncompleteFile transfers on one X           *)
(***************************************************************************)
InitTransfers ==
    IdleFile /\ IdleAction /\ IdleDownloader /\ IdleScope /\ InitIncomplete /\ IdleRest

SpecIncomplete == InitTransfers /\ [][NextIncomplete]_vars

(***************************************************************************)
(* Specification of a Downloader iterated to exhaustion, MaxRuns times     *)
(***************************************************************************)
InitDownloadRun ==
    IdleFile /\ IdleAction /\ IdleScope /\ InitDownload /\ IdleRest

SpecDownload == InitDownloadRun /\ [][NextDownload]_vars

\* a Downloader iterated once
SpecFetch == InitDownloadRun /\ [][NextFetch]_vars

(***************************************************************************)
(* Specification of IncompleteFile in several processes                    *)
(***************************************************************************)
InitConcRun ==
    /\ IdleFile /\ IdleAction /\ IdleDownloader /\ IdleScope /\ IdleIncomplete
    /\ InitConc /\ IdleManager /\ IdleRemote /\ IdleDigests

SpecConc == InitConcRun /\ [][NextConc]_vars

(***************************************************************************)
(* Specification of a DownloadManager running a batch                      *)
(***************************************************************************)
InitManagerRun ==
    /\ IdleFile /\ IdleAction /\ IdleDownloader /\ IdleScope /\ IdleIncomplete
    /\ IdleConc /\ InitManager /\ IdleRemote /\ IdleDigests

SpecManager == InitManagerRun /\ [][NextManager]_vars

\* the policy scope of a batch around the decision of a Downloader
InitBatchRun ==
    /\ IdleFile /\ IdleAction /\ IdleScope /\ IdleIncomplete /\ IdleConc
    /\ IdleRemote /\ IdleDigests
    /\ InitBatch

SpecBatch == InitBatchRun /\ [][NextBatch]_vars

(***************************************************************************)
(* Specification of one RemoteFile                                         *)
(***************************************************************************)
InitRemoteRun ==
    /\ IdleFile /\ IdleAction /\ IdleDownloader /\ IdleScope /\ IdleIncomplete
    /\ IdleConc /\ IdleManager /\ IdleDigests
    /\ InitRemote

SpecRemote == InitRemoteRun /\ [][NextRemote]_vars

(***************************************************************************)
(* Specification of sort_digests                                           *)
(***************************************************************************)
InitDigestsRun ==
    /\ IdleFile /\ IdleAction /\ IdleDownloader /\ IdleScope /\ IdleIncomplete
    /\ IdleConc /\ IdleManager /\ IdleRemote
    /\ InitDigests

SpecDigests == InitDigestsRun /\ [][NextDigests]_vars

(***************************************************************************)
(* Properties of File transactions                                         *)
(***************************************************************************)
\* the whole output of writer p
Complete(p) == [j \in 1..NChunks |-> p]
\* p is inside the with-block of a transaction that began successfully
InBody(p) == pc[p] = "body"
Over(p) == pc[p] \in {"done", "failed"}

\* C2: two processes that concurrently attempt a write-mode transaction on X:
\* exactly one fails with the lock-unavailable error, and the other completes
\* and publishes its own output to the final path.
C2_OneFailsOtherPublishes ==
    \A p, q \in Procs :
        ( /\ p # q
          /\ mode[p] = "w" /\ mode[q] = "w"
          /\ \A r \in Procs \ {p, q} : pc[r] = "idle"
          /\ Over(p) /\ Over(q)
          /\ overlap[q]
          /\ exc[p] # "transform" /\ exc[q] # "transform" )
        => \/ /\ pc[p] = "done" /\ pc[q] = "failed"
              /\ filename = p /\ content[p] = Complete(p)
           \/ /\ pc[q] = "done" /\ pc[p] = "failed"
              /\ filename = q /\ content[q] = Complete(q)

\* C3: never two write-mode transactions both between a successful begin and
\* their end.
C3_WriterExclusion ==
    Cardinality({p \in Procs : Writable(mode[p]) /\ InBody(p)}) <= 1

\* C4: while a read-mode transaction is open, no write-mode transaction on the
\* same destination begins successfully.
C4_NoWriterWhileReading ==
    [][\A w \in Procs :
          (pc[w] = "lock" /\ pc'[w] = "body" /\ Writable(mode[w]))
          => ~(\E r \in Procs : InBody(r) /\ mode[r] = "r")]_vars

\* C5: the content at the final path is the content from before the
\* operation (or absence), or the complete content written by one producer.
C5_NoPartialFinal ==
    \/ filename \in {0, OLD}
    \/ \E p \in Procs : content[filename] = Complete(p)

\* C6: when a transaction that began successfully has ended, with or without
\* an exception in its body, its handle holds no lock and X.tmp does not exist.
C6_CleanupOnExit ==
    /\ [](\A p \in Procs : pc[p] = "done" => lock[p] = 0)
    /\ [][\A p \in Procs :
            (pc[p] = "exit_rmtree" /\ pc'[p] = "done")
            => (lock'[p] = 0 /\ ~tempdir')]_vars

C6_Witness ==
    \E p, q \in Procs :
        /\ pc[p] = "done" /\ exc[p] = "transform" /\ written[p] > 0
        /\ pc[q] = "done" /\ exc[q] = "none" /\ filename = q

\* C26: a begin that failed with the lock-unavailable error while another
\* process held the lock left the holder's temp file X.tmp/X and the X.tmp
\* directory as they were: the file the holder opened is still at X.tmp/X.
C26_FailedBeginKeepsTemp ==
    \A p, q \in Procs :
        ( /\ p # q
          /\ pc[q] = "failed" /\ overlap[q]
          /\ InBody(p) /\ Writable(mode[p]) /\ fd[p] # 0
          /\ \A r \in Procs \ {p, q} : pc[r] = "idle" )
        => (tempdir /\ tempname = fd[p])

(***************************************************************************)
(* Properties of an Action                                                 *)
(***************************************************************************)
\* the policy the decision is taken under
Policy == Effective(current, ifexists)
SomeExisted == \E i \in DOMAIN dst0 : dst0[i].data > 0
AllExisted == \A i \in DOMAIN dst0 : dst0[i].data > 0
\* the Action ended at the decision with the single record rec
EndsWith(rec) == ran = "no" /\ (apc = "done" => records = <<rec>>)

\* C1: if the transform raises after writing bytes to the temp path, then
\* once the Action has finished every destination path holds what it held
\* before the run (or is still absent) and no X.tmp directory exists.
C1_AtomicPublish ==
    (apc = "done" /\ ran = "raised_after_write")
    => /\ dst = dst0
       /\ \A i \in DOMAIN dst : ~dstTempdir[i]
       /\ records = <<"error">>

C1_Witness ==
    /\ apc = "done" /\ ran = "raised_after_write"
    /\ Len(dst0) = 2 /\ dst0[1].data = 3 /\ dst0[2].data = 0

\* C7: once the decision is taken, under ErrorIfExists the Action fails (one
\* error record, transform not run) iff some destination exists; under Skip it
\* yields skipped and does not run the transform iff all destinations exist;
\* under Overwrite it always proceeds; and the transform runs only after a
\* decision to proceed.
C7_ExistenceOnlyPolicies ==
    /\ (decided # "none" /\ Policy = "error") =>
          /\ decided = (IF SomeExisted THEN "FileExistsError" ELSE "proceed")
          /\ decided = "FileExistsError" => EndsWith("error")
    /\ (decided # "none" /\ Policy = "skip") =>
          /\ decided = (IF AllExisted THEN "skipped" ELSE "proceed")
          /\ decided = "skipped" => EndsWith("skipped")
    /\ (decided # "none" /\ Policy = "overwrite") => decided = "proceed"
    /\ ran # "no" => decided = "proceed"

\* a group of two destinations of which one exists is regenerated under Skip
C7_Witness ==
    /\ apc = "done" /\ Len(dst0) = 2 /\ SomeExisted /\ ~AllExisted
    /\ Policy = "skip" /\ ran = "wrote" /\ AllExist(dst)

\* C8: under DifferentContent the Action proceeds if some destination is
\* missing, including when none exists; else if an expected size is given and
\* some destination's size differs; else if an expected digest is given and a
\* destination's digest differs; otherwise it yields a single skipped record
\* and does not run the transform.
C8_DifferentContent ==
    (decided # "none" /\ Policy = "different") =>
        IF ~AllExisted THEN decided = "proceed"
        ELSE IF size # 0 /\ \E i \in DOMAIN dst0 : SizeOf(dst0[i].data) # size
             THEN decided = "proceed"
        ELSE IF digests # 0 /\ \E i \in DOMAIN dst0 : DigestOf(dst0[i].data) # digests
             THEN decided = "proceed"
        ELSE decided = "skipped" /\ EndsWith("skipped")

\* C9: under RefreshByTime the Action proceeds if some destination is missing,
\* including when none exists; else if no expected mtime is known; else if
\* some destination's mtime differs from the expected one; otherwise it yields
\* a single skipped record and does not run the transform.
C9_RefreshByTime ==
    (decided # "none" /\ Policy = "refresh") =>
        IF ~AllExisted THEN decided = "proceed"
        ELSE IF mtime = "none" THEN decided = "proceed"
        ELSE IF \E i \in DOMAIN dst0 : dst0[i].mtime # mtime THEN decided = "proceed"
        ELSE decided = "skipped" /\ EndsWith("skipped")

\* a record whose status is done, skipped or error
Terminal(r) == r \in {"done", "skipped", "error"}

C16_FailuresBecomeRecords ==
    (apc = "done" /\ decided = "proceed" /\ ran \in {"no", "raised", "raised_after_write"})
    => records = <<"error">>

\* a transform that raised before writing anything
C16_Witness ==
    apc = "done" /\ records = <<"error">> /\ ran = "raised"

\* the transform completed and every destination was published
Produced == ran = "wrote" /\ \A i \in DOMAIN dst : dst[i].data > 0

\* C14: when the transform completes and the digest of an output differs from
\* the expected one, the Action ends with the record that carries checksum
\* differs and status error, yields no done record and does not set the mtime.
C14_ChecksumGate ==
    (apc = "done" /\ Produced /\ digests # 0
        /\ \E i \in DOMAIN dst : DigestOf(dst[i].data) # digests)
    => /\ records[Len(records)] = "checksum differs"
       /\ \A i \in 1..Len(records) : records[i] \notin {"done", "setting mtime"}

\* C15: when the transform completes and the expected digest equals that of
\* the output, the Action yields checksum ok, sets the mtime and yields done;
\* when no digest is expected it yields checksum '-' and then done.
C15_SuccessfulVerification ==
    (apc = "done" /\ Produced
        /\ \A i \in DOMAIN dst : digests # 0 => DigestOf(dst[i].data) = digests)
    => /\ records[1] = (IF digests # 0 THEN "checksum ok" ELSE "checksum -")
       /\ records[Len(records)] = "done"
       /\ \A i \in DOMAIN dst : dst[i].mtime = (IF mtime # "none" THEN mtime ELSE Now)

(***************************************************************************)
(* Properties of the Downloader's decision                                 *)
(***************************************************************************)
\* C10: for a single destination, the Downloader decides as the policy table
\* does with the server's size and mtime for the expected ones: under
\* ErrorIfExists it stops iff the destination exists; under Skip it skips iff
\* it exists; under Overwrite it proceeds; under DifferentContent it proceeds
\* if the destination is missing, or a known size differs, or a given digest
\* differs, and skips otherwise; under RefreshByTime it proceeds if the
\* destination is missing, or the mtime is unknown or differs, and skips
\* otherwise.
C10_DecidingAsPolicy ==
    dlDecided # "none" =>
        LET ifx == Effective(dlCurrent, dl.ifexists)
            exists == dlDst.data > 0
            expected ==
                CASE ifx = "error" -> IF exists THEN "return" ELSE "proceed"
                  [] ifx = "skip" -> IF exists THEN "skipped" ELSE "proceed"
                  [] ifx = "overwrite" -> "proceed"
                  [] ifx = "different" ->
                        IF ~exists THEN "proceed"
                        ELSE IF dl.size # 0 /\ dl.size # SizeOf(dlDst.data) THEN "proceed"
                        ELSE IF dl.digests # 0 /\ dl.digests # DigestOf(dlDst.data)
                             THEN "proceed"
                        ELSE "skipped"
                  [] ifx = "refresh" ->
                        IF ~exists THEN "proceed"
                        ELSE IF dl.mtime = "none" THEN "proceed"
                        ELSE IF dl.mtime # dlDst.mtime THEN "proceed"
                        ELSE "skipped"
        IN dlDecided = expected

(***************************************************************************)
(* Properties of the IfExists scopes                                       *)
(***************************************************************************)
\* the override that should be active: the value of the innermost open scope
Innermost(stack) == IF stack = <<>> THEN "none" ELSE stack[Len(stack)].value

\* C17: whatever scopes were entered and left, for both IfExists classes the
\* active override is the value of the innermost scope still open, and no
\* override is active when no scope is open.
C17_ScopeRestored ==
    /\ current = Innermost(scopes)
    /\ dlCurrent = Innermost(dlScopes)

(***************************************************************************)
(* Properties of IncompleteFile                                            *)
(***************************************************************************)
\* C18: a begin resumes (append mode, the partial file kept, offset = its
\* size) iff the partial file exists and either a digest is expected and
\* equals the marker, or none is expected and the fallback is 'continue';
\* otherwise the partial bytes are discarded and the offset is 0.
C18_ResumeOrRestart ==
    [][(incpc # "open" /\ incpc' = "open") =>
          IF /\ incTempname.exists
             /\ \/ incChecksum' # 0 /\ incChecksum' = incCheckname
                \/ incChecksum' = 0 /\ incFallback' = "c"
          THEN /\ incMode' = "ab"
               /\ incTempname' = incTempname
               /\ incOffset' = Len(incTempname.bytes)
          ELSE /\ incMode' = "wb"
               /\ incTempname' = [exists |-> TRUE, bytes |-> <<>>]
               /\ incOffset' = 0]_vars

\* a transfer resumed under a matching marker after an interrupted one
C18_Witness ==
    /\ incpc = "open" /\ incMode = "ab" /\ incOffset > 0
    /\ incChecksum # 0 /\ incCount > 1

\* C19: whenever X.download and X.checksum both exist, the marker is the
\* digest expected by the transfer that wrote the bytes of X.download.
C19_MarkerMatchesBytes ==
    (incTempname.exists /\ incCheckname # 0)
    => \A i \in 1..Len(incTempname.bytes) : incTempname.bytes[i] = incCheckname

\* C20: when a transfer ends without an exception the partial file has become
\* the final file and X.download, X.lock and X.checksum are absent; when it
\* ends with an exception the lock is released and the final file, X.download
\* and X.checksum are as they were.
C20_EndOfTransfer ==
    [][/\ (incpc = "open" /\ incpc' = "done") =>
             /\ incFilename' = incTempname /\ incFilename'.exists
             /\ ~incTempname'.exists /\ ~incLockname' /\ incCheckname' = 0
             /\ ~incLock'
       /\ (incpc = "open" /\ incpc' = "raised") =>
             /\ ~incLock'
             /\ incFilename' = incFilename
             /\ incTempname' = incTempname
             /\ incCheckname' = incCheckname]_vars

\* a transfer interrupted after it wrote bytes, and one that completed
C20_Witness ==
    /\ incpc = "raised" /\ Len(incTempname.bytes) > 0 /\ incCheckname # 0
    /\ incCount > 1 /\ incFilename.exists /\ incFilename # OldFile

(***************************************************************************)
(* Properties of a Downloader run                                          *)
(***************************************************************************)
\* C13: a Downloader iterated to exhaustion under the guard has yielded
\* exactly one record whose status is done, skipped or error, and it is the
\* last one, whatever the policy, the destination, the partial file and the
\* outcome of the transfer.
C13_DownloaderTerminalRecord ==
    dlpc = "done" =>
        /\ dlRecords # <<>>
        /\ Terminal(dlRecords[Len(dlRecords)])
        /\ \A i \in 1..(Len(dlRecords) - 1) : ~Terminal(dlRecords[i])

\* C11: when a Downloader that ended with done under DifferentContent is
\* iterated again, the second iteration yields the single record skipped and
\* leaves the destination's bytes and mtime as the first one left them.
C11_SecondRunSkips ==
    (/\ dlRun = 2 /\ dlpc = "done"
     /\ Effective(dlCurrent, dl.ifexists) = "different"
     /\ dlFirst.records # <<>>
     /\ dlFirst.records[Len(dlFirst.records)] = "done")
    => /\ dlRecords = <<"skipped">>
       /\ dlDst = dlFirst.dst

\* the last record of the iteration
LastRecord == IF dlRecords = <<>> THEN "none" ELSE dlRecords[Len(dlRecords)]

\* C27: a fetch that went on to transfer, found the partial file already at
\* the known size and so opened no RemoteFile, has gone through verification
\* (a checksum record) and ended with done or error.
C27_CompletePartialVerified ==
    (/\ dlpc = "done" /\ dlDecided = "proceed"
     /\ dlExc = "none" /\ remote_file.opened = 0)
    => /\ LastRecord \in {"done", "error"}
       /\ \E i \in DOMAIN dlRecords : dlRecords[i] = "checksum -"

\* C28: an attempt that the server answered with an allow-listed status
\* (503) while attempts were left did not end the fetch as a success: it
\* failed and another attempt followed.
C28_BoundedRetries ==
    ~(/\ dlpc = "done" /\ remote_file.opened > 0
      /\ remote_file.status = 503
      /\ ~LastAttempt(dlAttempt)
      /\ dlExc = "none")

\* C29: an attempt that ended with an exception carrying a status outside
\* the allow-list, with a ValueError or with the lock-unavailable error ended
\* the iteration, whatever the number of attempts left: no attempt follows.
C29_OnlyTransientRetried ==
    dlExc \in {"fatal", "value", "lock"} => dlpc = "done" /\ LastRecord = "error"

C29_Witness ==
    /\ dlExc = "fatal" /\ dlpc = "done"
    /\ remote_file.opened = 1 /\ ~LastAttempt(dlAttempt)

\* C21: a first iteration without digests under fallback 'continue' that
\* resumed the partial file of an interrupted transfer in a single attempt,
\* from a server that holds the data, and ended with done, has published the
\* bytes of the data, as a fetch from scratch does.
C21_ResumeCorrectness ==
    (/\ dlpc = "done" /\ dlRun = 1 /\ dlAttempt = 0
     /\ dl.digests = 0 /\ dl.ifnodigest = "c"
     /\ remote_file.status \in {0, 200, 416}
     /\ LastRecord = "done")
    => incFilename.bytes = BytesOf(dlRemote)

\* C30: a transfer begun with a digest algorithm fails to begin only when
\* the lock is held by another process, and while it is open its accumulator
\* is the digest of exactly the bytes in the partial file.
C30_DigestFollowsBytes ==
    incAlgo # 0 =>
        /\ (incpc = "failed" => incExc = "lock")
        /\ (incpc = "open" => incDigester = incTempname.bytes)

\* C25: at most one process is between a successful begin of an
\* IncompleteFile on X and its end, in every interleaving of begins and ends,
\* including begins made while another process is removing its sidecars.
C25_OneTransferAtATime ==
    Cardinality({p \in Procs : concpc[p] = "open"}) <= 1

(***************************************************************************)
(* Properties of a DownloadManager                                         *)
(***************************************************************************)
\* the records of downloader d that self.out was called with, in order
FeedOf(d) == SelectSeq(mgrFeed, LAMBDA r : r.path = d)

\* the records downloader d (under its guard) has yielded so far, in order
Emitted(d) ==
    [i \in 1..mgrPos[d] |-> Record(d, i)]
        \o (IF mgrSt[d] = "ended" /\ mgrPlan[d].raises
            THEN <<ErrorRecord(d)>> ELSE <<>>)

IsPrefix(a, b) == Len(a) <= Len(b) /\ a = SubSeq(b, 1, Len(a))

\* C22: with on_error = 'yield' no exception of a downloader leaves its
\* guard or run(); when run() returns every downloader has been run to its
\* end and all its records are in the feed, the last one being the error
\* record for a downloader that raised and its own terminal record for every
\* other one.
C22_YieldMode ==
    mgrOnError = "yield" =>
        /\ mgrpc # "raised"
        /\ \A d \in Dls : mgrSt[d] # "raised"
        /\ mgrpc = "returned" =>
              \A d \in Dls :
                  /\ mgrSt[d] = "ended"
                  /\ FeedOf(d) = Emitted(d)
                  /\ FeedOf(d) # <<>>
                  /\ FeedOf(d)[Len(FeedOf(d))].status =
                         IF mgrPlan[d].raises THEN "error" ELSE "done"

\* a batch has been run in which the first downloader raised after it had
\* yielded a record and the second did not raise
C22_Witness ==
    /\ mgrOnError = "yield" /\ mgrpc = "returned"
    /\ mgrPlan[1].raises /\ mgrPlan[1].n > 0
    /\ ~mgrPlan[2].raises

\* C23: with on_error = 'raise', run() does not return when a downloader has
\* raised (the exception reaches the caller), and once a downloader has
\* raised no downloader that was not yet started is started.
C23_RaiseMode ==
    /\ [](mgrOnError = "raise" /\ mgrpc = "returned"
            => \A d \in Dls : mgrSt[d] # "raised")
    /\ [][(mgrOnError = "raise" /\ \E d \in Dls : mgrSt[d] = "raised")
            => \A e \in Dls : mgrSt[e] = "new" => mgrSt'[e] = "new"]_vars

\* C24: the records of each downloader that have reached self.out are the
\* first records it yielded, in the order it yielded them: none is moved,
\* repeated or inserted, however the records of the downloaders interleave.
C24_RecordOrder ==
    \A d \in Dls : IsPrefix(FeedOf(d), Emitted(d))

\* the pool ran two downloaders at once and a record of the second reached
\* self.out between two records of the first
C24_Witness ==
    /\ mgrMode = "threaded"
    /\ \E i, j, l \in DOMAIN mgrFeed :
          /\ i < j /\ j < l
          /\ mgrFeed[i].path = 1 /\ mgrFeed[j].path = 2 /\ mgrFeed[l].path = 1

\* C31: in a batch of a DownloadManager made without ifexists, no policy is
\* installed as IfExists.current, and a Downloader that has decided has
\* decided as the policy it was constructed with says.
C31_NoBatchOverride ==
    (mgrIfExists = "None" /\ mgrpc = "run") =>
        /\ dlCurrent = "none"
        /\ dlDecided # "none" =>
              dlDecided = DownloaderShouldOverwrite(dlDst, dl.ifexists, dl.size,
                                                    dl.digests, dl.mtime)


\* C32: under run_async, while one downloader of the batch is running and
\* has not reached its terminal record, the next downloader of the batch
\* that is not finished can be started.
C32_AsyncInterleaves ==
    (/\ mgrMode = "async" /\ mgrpc = "run"
     /\ mgrNext <= NumDl
     /\ \E d \in Running : mgrPos[d] < mgrPlan[d].n)
        => ENABLED RunAsyncStart

\* C33: when Files.__enter__ fails at its k-th File, every File entered
\* before it has been ended by the time the failure has propagated: its
\* lock is released and its X.tmp directory is removed.
C33_GroupEnterUnwinds ==
    [][\A k \in DstIdx :
          AEnterDst(k) =>
              \A i \in DstIdx : i < k => (~dstLock'[i] /\ ~dstTempdir'[i])]_vars

\* C34: when run_threaded has returned, every submitted job has finished,
\* the queues jobs and statuses are empty, and every record a worker has put
\* on statuses has been handed to self.out.
C34_NoRecordLost ==
    (mgrMode = "threaded" /\ mgrpc = "returned") =>
        /\ \A d \in Dls : Ready(d) /\ mgrPos[d] = mgrPlan[d].n
        /\ mgrJobQueue = <<>> /\ mgrStatuses = <<>>
        /\ \A d \in Dls : FeedOf(d) = Emitted(d)

\* run_threaded has returned from a batch larger than the pool, in which
\* every downloader put several records on statuses
C34_Witness ==
    /\ mgrMode = "threaded" /\ mgrpc = "returned"
    /\ NumDl > mgrJobs
    /\ \A d \in Dls : Len(Emitted(d)) >= 2
    /\ Len(mgrFeed) >= 2 * NumDl

(***************************************************************************)
(* Properties of a RemoteFile                                              *)
(***************************************************************************)
\* the requests for a body sent so far
BodyRequests == SelectSeq(rfLog, LAMBDA e : e.method = "GET")

\* the calls of the authentication callback in the last call of _try_*
AuthCalls == {i \in DOMAIN rfCall.events : rfCall.events[i].method = "AUTH"}

\* C35: a RemoteFile with offset k > 0, not beyond the length of the body,
\* on a server that neither redirects nor wants authentication: once it has
\* been iterated to its end, exactly one request for a body was sent, with
\* `Range: bytes=k-` if the server serves ranges and without a Range header
\* otherwise, and the chunks yielded, concatenated, are the bytes of the
\* body from position k to its end.
C35_OffsetHandling ==
    (/\ rfpc = "done" /\ rfOffset > 0
     /\ rfServer.hops = 0 /\ ~rfServer.locked) =>
        /\ Len(BodyRequests) = 1
        /\ BodyRequests[1].range =
               IF rfHasRange = "True" THEN rfOffset ELSE NoRange
        /\ rfYielded = SubSeq(rfServer.body, rfOffset + 1, Len(rfServer.body))

\* C36: when the URL leads through h >= 1 redirects to a response that is
\* not a redirect, a call of _try_head or _try_get sends a request at each
\* of the h locations in turn and returns a response that is not a
\* redirect.
C36_RedirectFollowing ==
    (rfCall # NoCall /\ rfServer.hops >= 1) =>
        /\ rfCall.exc = "none"
        /\ rfCall.r # NoResponse /\ rfCall.r.status \notin REDIRECTION
        /\ \A h \in 1..rfServer.hops :
              \E i \in DOMAIN rfCall.events : rfCall.events[i].at = h

\* C37: in a call of _try_head or _try_get on a URL without redirects: if
\* the first response is 200 or 206 the authentication callback is not
\* called; otherwise it is called exactly once, exactly one request is sent
\* after it, and the call returns (the response to that request).
C37_LazyReauth ==
    (rfCall # NoCall /\ rfServer.hops = 0) =>
        IF rfCall.first \in {200, 206}
        THEN AuthCalls = {}
        ELSE /\ Cardinality(AuthCalls) = 1
             /\ \A i \in AuthCalls : Len(rfCall.events) = i + 1
             /\ rfCall.exc = "none"

(***************************************************************************)
(* Properties of sort_digests                                              *)
(***************************************************************************)
\* the names of a dict that DigestPriority knows
Known(d) == {i \in DOMAIN d : DigestSorter(d[i]) < Inf}

\* the same entries inserted in another order
Reordered(d) ==
    {e \in [DOMAIN d -> Algorithms] :
        {e[i] : i \in DOMAIN e} = {d[i] : i \in DOMAIN d}}

C39_UnlinkRemoves ==
    (apc = "done" /\ ran = "unlinked" /\ AllExisted) =>
        \A i \in DstIdx : ~Lexists(dst[i])

====
